---------------------------- MODULE Spec2Model ----------------------------
(***************************************************************************)
(* Model of the relay server's content endpoint, POST /api/proxy/content   *)
(* (registerRoutes, src/unnamed/part_004).  Documents are character        *)
(* strings; the handler's text transforms are modelled on the characters,  *)
(* each regular expression by the matches it makes.                        *)
(***************************************************************************)
EXTENDS Integers, Sequences, FiniteSets, TLC

(***************************************************************************)
(* Strings: the String.prototype operations the handler uses.              *)
(***************************************************************************)

\* s[i] as a one-character string, "" outside the string
At(s, i) == IF i >= 1 /\ i <= Len(s) THEN SubSeq(s, i, i) ELSE ""

\* s.slice(i-1, j): the characters i..j
Slice(s, i, j) == IF i > j THEN "" ELSE SubSeq(s, i, j)

\* the characters from i to the end
From(s, i) == Slice(s, i, Len(s))

UpperChars == "ABCDEFGHIJKLMNOPQRSTUVWXYZ"

LowerChars == "abcdefghijklmnopqrstuvwxyz"

\* one character folded to lower case, as a case-insensitive match compares
LowerChar(c) ==
    IF \E k \in 1..26 : At(UpperChars, k) = c
    THEN At(LowerChars, CHOOSE k \in 1..26 : At(UpperChars, k) = c)
    ELSE c

\* the literal p sits at position i of s
StartsAt(s, i, p) == i >= 1 /\ i + Len(p) - 1 <= Len(s) /\ SubSeq(s, i, i + Len(p) - 1) = p

\* the same under the i flag (p is given in lower case)
StartsAtCI(s, i, p) ==
    /\ i >= 1
    /\ i + Len(p) - 1 <= Len(s)
    /\ \A k \in 1..Len(p) : LowerChar(At(s, i + k - 1)) = At(p, k)

\* String.prototype.includes
Includes(s, p) == \E i \in 1..(Len(s) - Len(p) + 1) : StartsAt(s, i, p)

\* the characters \s matches (those the documents of the model use)
IsSpace(c) == c \in {" ", "\n", "\t", "\r"}

IsQuote(c) == c \in {"\"", "'"}

\* String.prototype.trim: from the first to the last character that is not
\* white space
Trim(s) ==
    IF \A k \in 1..Len(s) : IsSpace(At(s, k)) THEN ""
    ELSE LET a == CHOOSE k \in 1..Len(s) :
                      ~IsSpace(At(s, k)) /\ \A m \in 1..(k - 1) : IsSpace(At(s, m))
             b == CHOOSE k \in 1..Len(s) :
                      ~IsSpace(At(s, k)) /\ \A m \in (k + 1)..Len(s) : IsSpace(At(s, m))
         IN  Slice(s, a, b)

\* first position >= i whose character is in the set cs, 0 if there is none
FindChar(s, i, cs) ==
    IF \A k \in i..Len(s) : At(s, k) \notin cs THEN 0
    ELSE CHOOSE k \in i..Len(s) : At(s, k) \in cs /\ \A m \in i..(k - 1) : At(s, m) \notin cs

\* first position >= i where the lower-case literal p matches under the i
\* flag, 0 if there is none
FindCI(s, i, p) ==
    IF \A k \in i..Len(s) : ~StartsAtCI(s, k, p) THEN 0
    ELSE CHOOSE k \in i..Len(s) :
             StartsAtCI(s, k, p) /\ \A m \in i..(k - 1) : ~StartsAtCI(s, m, p)

\* position after the run of \s* that starts at i
SkipSpace(s, i) ==
    IF \A k \in i..Len(s) : IsSpace(At(s, k)) THEN IF i > Len(s) THEN i ELSE Len(s) + 1
    ELSE CHOOSE k \in i..Len(s) : ~IsSpace(At(s, k)) /\ \A m \in i..(k - 1) : IsSpace(At(s, m))

(***************************************************************************)
(* URLs.  new URL(u) is modelled by its result on each request value of    *)
(* the model: whether it parses, and url.protocol, url.host, url.hostname. *)
(***************************************************************************)

WellFormedUrls == {"https://example.com/page", "http://docs.example.org:8080/a/b?q=1",
                   "ftp://files.example.com/pub"}

MalformedUrls == {"not a url", "example.com/page"}

\* new URL(u) returns (TRUE) or throws TypeError (FALSE)
UrlParses(u) == u \in WellFormedUrls

\* fetch(u) takes http: and https: URLs only; anything else rejects before
\* any network traffic
UrlFetchable(u) == UrlParses(u) /\ (StartsAt(u, 1, "http://") \/ StartsAt(u, 1, "https://"))

UrlProtocol(u) ==
    CASE u = "https://example.com/page" -> "https:"
      [] u = "http://docs.example.org:8080/a/b?q=1" -> "http:"
      [] u = "ftp://files.example.com/pub" -> "ftp:"

UrlHost(u) ==
    CASE u = "https://example.com/page" -> "example.com"
      [] u = "http://docs.example.org:8080/a/b?q=1" -> "docs.example.org:8080"
      [] u = "ftp://files.example.com/pub" -> "files.example.com"

UrlHostname(u) ==
    CASE u = "https://example.com/page" -> "example.com"
      [] u = "http://docs.example.org:8080/a/b?q=1" -> "docs.example.org"
      [] u = "ftp://files.example.com/pub" -> "files.example.com"

\* BaseUrl keeping the path of the URL
BaseUrlWithPath(u) == u

\* const baseUrl = `${url.protocol}//${url.host}`
BaseUrl(u) == UrlProtocol(u) \o "//" \o UrlHost(u)

(***************************************************************************)
(* The rewrite transforms of the handler, one operator per replace call.   *)
(* A match operator gives the position of the last character of the match  *)
(* that starts at i, or 0 when the expression does not match there.        *)
(***************************************************************************)

\* /NAME=["']\/([^"']*?)["']/ at i, NAME one of href, src, action: the
\* attribute name and "=", a quote, a slash, then up to the first quote
AttrMatchEnd(s, i, name) ==
    LET p == i + Len(name) + 1
    IN  IF StartsAt(s, i, name \o "=") /\ IsQuote(At(s, p)) /\ At(s, p + 1) = "/"
        THEN FindChar(s, p + 2, {"\"", "'"})
        ELSE 0

\* `NAME="${baseUrl}/$1"`
AttrReplacement(s, i, j, name, baseUrl) ==
    name \o "=\"" \o baseUrl \o "/" \o Slice(s, i + Len(name) + 3, j - 1) \o "\""

\* html.replace(/NAME=["']\/([^"']*?)["']/g, `NAME="${baseUrl}/$1"`)
\* (the g flag: the scan goes on after each match, i is where it stands)
RECURSIVE RebaseAttr(_, _, _, _)
RebaseAttr(s, i, name, baseUrl) ==
    IF \A k \in i..Len(s) : AttrMatchEnd(s, k, name) = 0 THEN From(s, i)
    ELSE LET a == CHOOSE k \in i..Len(s) :
                      AttrMatchEnd(s, k, name) > 0
                      /\ \A m \in i..(k - 1) : AttrMatchEnd(s, m, name) = 0
             j == AttrMatchEnd(s, a, name)
         IN  Slice(s, i, a - 1) \o AttrReplacement(s, a, j, name, baseUrl)
                 \o RebaseAttr(s, j + 1, name, baseUrl)

\* where the captured group of /url\(["']?\/([^)"']*?)["']?\)/ starts, for a
\* match that starts at i: after "url(", an optional quote and the slash
CssGroupStart(s, i) == IF IsQuote(At(s, i + 4)) THEN i + 6 ELSE i + 5

\* /url\(["']?\/([^)"']*?)["']?\)/ at i
CssMatchEnd(s, i) ==
    LET g == CssGroupStart(s, i)
        k == FindChar(s, g, {")", "\"", "'"})
    IN  IF ~(StartsAt(s, i, "url(") /\ At(s, g - 1) = "/") THEN 0
        ELSE IF k = 0 THEN 0
        ELSE IF At(s, k) = ")" THEN k
        ELSE IF At(s, k + 1) = ")" THEN k + 1
        ELSE 0

\* where the captured group of the match i..j ends
CssGroupEnd(s, j) == IF IsQuote(At(s, j - 1)) THEN j - 2 ELSE j - 1

\* html.replace(/url\(["']?\/([^)"']*?)["']?\)/g, `url("${baseUrl}/$1")`)
RECURSIVE RebaseCssUrl(_, _, _)
RebaseCssUrl(s, i, baseUrl) ==
    IF \A k \in i..Len(s) : CssMatchEnd(s, k) = 0 THEN From(s, i)
    ELSE LET a == CHOOSE k \in i..Len(s) :
                      CssMatchEnd(s, k) > 0 /\ \A m \in i..(k - 1) : CssMatchEnd(s, m) = 0
             j == CssMatchEnd(s, a)
         IN  Slice(s, i, a - 1) \o "url(\"" \o baseUrl \o "/"
                 \o Slice(s, CssGroupStart(s, a), CssGroupEnd(s, j)) \o "\")"
                 \o RebaseCssUrl(s, j + 1, baseUrl)

\* /<TAG[^>]*INNER[^>]*>/i at i: the opening tag that starts at i runs to the
\* first ">" and holds one of the literals of inner; gives that ">"
OpenTagMatchEnd(s, i, tag, inner) ==
    LET g == FindChar(s, i + Len(tag), {">"})
    IN  IF StartsAtCI(s, i, tag) /\ g > 0
           /\ \E p \in inner : \E a \in (i + Len(tag))..(g - Len(p)) : StartsAtCI(s, a, p)
        THEN g
        ELSE 0

\* /<TAG[^>]*INNER[^>]*>.*?<\/TAG>/is at i: such an opening tag, then up to
\* the first closing tag
ElementMatchEnd(s, i, tag, inner, close) ==
    LET g == OpenTagMatchEnd(s, i, tag, inner)
        c == IF g > 0 THEN FindCI(s, g + 1, close) ELSE 0
    IN  IF c > 0 THEN c + Len(close) - 1 ELSE 0

\* html.replace(/<TAG[^>]*INNER[^>]*>.*?<\/TAG>/gis, '')
RECURSIVE StripElement(_, _, _, _, _)
StripElement(s, i, tag, inner, close) ==
    IF \A k \in i..Len(s) : ElementMatchEnd(s, k, tag, inner, close) = 0 THEN From(s, i)
    ELSE LET a == CHOOSE k \in i..Len(s) :
                      ElementMatchEnd(s, k, tag, inner, close) > 0
                      /\ \A m \in i..(k - 1) : ElementMatchEnd(s, m, tag, inner, close) = 0
         IN  Slice(s, i, a - 1)
                 \o StripElement(s, ElementMatchEnd(s, a, tag, inner, close) + 1, tag, inner, close)

\* html.replace(/<TAG[^>]*INNER[^>]*>/gi, '')
RECURSIVE StripOpenTag(_, _, _, _)
StripOpenTag(s, i, tag, inner) ==
    IF \A k \in i..Len(s) : OpenTagMatchEnd(s, k, tag, inner) = 0 THEN From(s, i)
    ELSE LET a == CHOOSE k \in i..Len(s) :
                      OpenTagMatchEnd(s, k, tag, inner) > 0
                      /\ \A m \in i..(k - 1) : OpenTagMatchEnd(s, m, tag, inner) = 0
         IN  Slice(s, i, a - 1) \o StripOpenTag(s, OpenTagMatchEnd(s, a, tag, inner) + 1, tag, inner)

\* the words of ws, each followed by \s*, matched under the i flag from i:
\* the position after the last word's character, 0 when they do not match
RECURSIVE WordsMatchEnd(_, _, _)
WordsMatchEnd(s, i, ws) ==
    IF ws = <<>> THEN i
    ELSE IF ~StartsAtCI(s, i, Head(ws)) THEN 0
    ELSE IF Len(ws) = 1 THEN i + Len(Head(ws))
    ELSE WordsMatchEnd(s, SkipSpace(s, i + Len(Head(ws))), Tail(ws))

\* /\/\*\s*playback\s*timers\s*\*\// at i
PlaybackOpen == <<"/*", "playback", "timers", "*/">>

\* /\/\*\s*End\s*Wayback\s*Rewrite\s*\*/ : the expression ends at the star,
\* it does not take the slash that closes the comment
PlaybackClose == <<"/*", "end", "wayback", "rewrite", "*">>

\* first position >= i where the words ws match, 0 if none
FindWords(s, i, ws) ==
    IF \A k \in i..Len(s) : WordsMatchEnd(s, k, ws) = 0 THEN 0
    ELSE CHOOSE k \in i..Len(s) :
             WordsMatchEnd(s, k, ws) > 0 /\ \A m \in i..(k - 1) : WordsMatchEnd(s, m, ws) = 0

\* /\/\*\s*playback\s*timers\s*\*\/.*?\/\*\s*End\s*Wayback\s*Rewrite\s*\*/is at i
PlaybackMatchEnd(s, i) ==
    LET o == WordsMatchEnd(s, i, PlaybackOpen)
        c == IF o > 0 THEN FindWords(s, o, PlaybackClose) ELSE 0
    IN  IF c > 0 THEN WordsMatchEnd(s, c, PlaybackClose) - 1 ELSE 0

\* html.replace(/\/\*\s*playback ... Rewrite\s*\*/gis, '')
RECURSIVE StripPlayback(_, _)
StripPlayback(s, i) ==
    IF \A k \in i..Len(s) : PlaybackMatchEnd(s, k) = 0 THEN From(s, i)
    ELSE LET a == CHOOSE k \in i..Len(s) :
                      PlaybackMatchEnd(s, k) > 0 /\ \A m \in i..(k - 1) : PlaybackMatchEnd(s, m) = 0
         IN  Slice(s, i, a - 1) \o StripPlayback(s, PlaybackMatchEnd(s, a) + 1)

\* /<head[^>]*>/i at i: "<head" and on to the first ">"
HeadTagMatchEnd(s, i) == IF StartsAtCI(s, i, "<head") THEN FindChar(s, i + 5, {">"}) ELSE 0

\* the first match of /<head[^>]*>/i as <<start, end>>, <<0, 0>> if none
FindHeadTag(s) ==
    IF \A k \in 1..Len(s) : HeadTagMatchEnd(s, k) = 0 THEN <<0, 0>>
    ELSE LET a == CHOOSE k \in 1..Len(s) :
                      HeadTagMatchEnd(s, k) > 0 /\ \A m \in 1..(k - 1) : HeadTagMatchEnd(s, m) = 0
         IN  <<a, HeadTagMatchEnd(s, a)>>

\* html.replace(/<head[^>]*>/i, `$&${text}`): text put after the first
\* opening head tag; nothing changes when there is none
InsertAfterHead(s, text) ==
    LET m == FindHeadTag(s)
    IN  IF m[1] = 0 THEN s
        ELSE Slice(s, 1, m[2]) \o text \o From(s, m[2] + 1)

\* html.replace(/<\/TAG>/i, `${text}\n$&`): text put before the first
\* closing tag; nothing changes when there is none
InsertBeforeClose(s, close, text) ==
    LET c == FindCI(s, 1, close)
    IN  IF c = 0 THEN s
        ELSE Slice(s, 1, c - 1) \o text \o "\n" \o From(s, c)

XFrameMeta == {"http-equiv=x-frame-options", "http-equiv=\"x-frame-options",
               "http-equiv='x-frame-options"}

ViewportMeta == {"name=viewport", "name=\"viewport", "name='viewport"}

BaseTag(baseUrl) == "\n    <base href=\"" \o baseUrl \o "/\">"

ViewportTag == "\n    <meta name=\"viewport\" content=\"width=device-width, initial-scale=1.0\">"

\* the four URL rewriting replaces
RebaseUrls(s, baseUrl) ==
    RebaseCssUrl(RebaseAttr(RebaseAttr(RebaseAttr(s, 1, "href", baseUrl),
                                       1, "src", baseUrl),
                            1, "action", baseUrl),
                 1, baseUrl)

\* "Remove Wayback Machine artifacts"
StripArchiveArtifacts(s) ==
    StripPlayback(StripElement(StripElement(s, 1, "<script", {"archive.org"}, "</script>"),
                               1, "<div", {"wm-ipp"}, "</div>"),
                  1)

\* "Remove problematic meta tags"
StripMeta(s) == StripOpenTag(StripOpenTag(s, 1, "<meta", XFrameMeta), 1, "<meta", ViewportMeta)

\* if (!html.includes('<base ')) insert the base tag after the head tag
EnsureBase(s, baseUrl) ==
    IF ~Includes(s, "<base ") THEN InsertAfterHead(s, BaseTag(baseUrl)) ELSE s

\* the transforms from the URL rewriting to the viewport tag, in the
\* handler's order
Rewrite(s, baseUrl) ==
    InsertAfterHead(EnsureBase(StripMeta(StripArchiveArtifacts(RebaseUrls(s, baseUrl))),
                               baseUrl),
                    ViewportTag)

\* enhancedStyles: the overlay's style block (its rules left out)
EnhancedStyles == "<style>#fallback-loader{position:fixed}#fallback-loader.hidden{opacity:0}</style>"

\* fallbackScript: the readiness script (its body left out)
FallbackScript == "<script>(function(){setTimeout(hideLoader,20000);})();</script>"

\* the two injecting replaces
Inject(s) ==
    InsertBeforeClose(InsertBeforeClose(s, "</head>", EnhancedStyles), "</body>", FallbackScript)

(***************************************************************************)
(* What the upstream servers may answer.                                   *)
(***************************************************************************)

Spaces20 == "                    "

Filler == "Lorem ipsum dolor sit amet, consectetur adipiscing elit, sed do eiusmod tempor incididunt ut labore."

\* an ordinary page: a head, a viewport meta, root-relative references
FullDoc ==
    "<html><head><title>Example</title><meta name=\"viewport\" content=\"width=800\"></head>"
    \o "<body><a href=\"/docs\">Docs</a><img src='/logo.png'><p>" \o Filler \o "</p></body></html>"

\* a blank interstitial
ShortDoc == "<html><head></head><body>blocked</body></html>"

\* more than a hundred characters, all of them white space
BlankDoc == Spaces20 \o Spaces20 \o Spaces20 \o "\n" \o Spaces20 \o Spaces20 \o Spaces20

\* a short page behind leading and trailing white space
PaddedShortDoc == Spaces20 \o Spaces20 \o Spaces20 \o "\n" \o ShortDoc \o "\n" \o Spaces20

\* a page of exactly one hundred characters
Edge100Doc == "<html><head></head><body>" \o Slice(Filler, 1, 61) \o "</body></html>"

\* a page without a head tag
HeadlessDoc == "<p>" \o Filler \o "</p><a href='/next'>next</a>"

\* an archived snapshot as the archive serves it: its script, its toolbar
ArchivedDoc ==
    "<html><head><script src=\"//archive.org/includes/analytics.js\"></script>"
    \o "<title>Example</title></head><body><div id=\"wm-ipp-base\">toolbar</div>"
    \o "<a href=\"/web/2024/docs\">Docs</a><p>" \o Filler \o "</p></body></html>"

\* a response that is nothing but one script element loaded from the archive
ArtifactDoc ==
    "<script src=\"//archive.org/includes/analytics.js\">" \o Filler \o "</script>"

Bodies == {"", ShortDoc, BlankDoc, PaddedShortDoc, Edge100Doc, FullDoc, HeadlessDoc,
           ArchivedDoc, ArtifactDoc}

HtmlType == "text/html; charset=utf-8"

\* content-type headers of the model; "" is a response without the header
ContentTypes == {HtmlType, "application/json", "application/pdf", ""}

NoData == [parses |-> FALSE, isNull |-> FALSE, hasSnapshots |-> FALSE, hasClosest |-> FALSE,
           available |-> FALSE, url |-> ""]

SnapshotUrl == "http://web.archive.org/web/20240101000000/https://example.com/page"

\* bodies of the snapshot lookup: not JSON; null; {}; {archived_snapshots: {}};
\* closest.available false; closest.available true with and without a url
WaybackData ==
    { NoData,
      [NoData EXCEPT !.parses = TRUE, !.isNull = TRUE],
      [NoData EXCEPT !.parses = TRUE],
      [NoData EXCEPT !.parses = TRUE, !.hasSnapshots = TRUE],
      [NoData EXCEPT !.parses = TRUE, !.hasSnapshots = TRUE, !.hasClosest = TRUE,
                     !.url = SnapshotUrl],
      [NoData EXCEPT !.parses = TRUE, !.hasSnapshots = TRUE, !.hasClosest = TRUE,
                     !.available = TRUE, !.url = SnapshotUrl],
      [NoData EXCEPT !.parses = TRUE, !.hasSnapshots = TRUE, !.hasClosest = TRUE,
                     !.available = TRUE] }

\* how an outbound call settles: fetch rejects (the AbortSignal timeout, a
\* network error) or a response arrives
Thrown(kind) == [kind |-> kind, status |-> 0, contentType |-> "", body |-> "", data |-> NoData]

Response(status, contentType, body) ==
    [kind |-> "response", status |-> status, contentType |-> contentType, body |-> body,
     data |-> NoData]

LookupResponse(status, data) ==
    [kind |-> "response", status |-> status, contentType |-> "application/json", body |-> "",
     data |-> data]

NoOutcome == Thrown("none")

FetchOutcomes ==
    {Thrown("timeout"), Thrown("neterr")}
    \cup {Response(st, HtmlType, FullDoc) : st \in {404, 503}}
    \cup {Response(200, HtmlType, b) : b \in Bodies}
    \cup {Response(200, ct, FullDoc) : ct \in ContentTypes \ {HtmlType}}

LookupOutcomes ==
    {Thrown("timeout"), Thrown("neterr")}
    \cup {LookupResponse(503, [NoData EXCEPT !.parses = TRUE, !.hasSnapshots = TRUE,
                                             !.hasClosest = TRUE, !.available = TRUE,
                                             !.url = SnapshotUrl])}
    \cup {LookupResponse(200, d) : d \in WaybackData}

\* Response.ok
Ok(o) == o.kind = "response" /\ o.status >= 200 /\ o.status <= 299

(***************************************************************************)
(* The request bodies: targetUrl absent, empty, malformed, well formed.    *)
(***************************************************************************)

RequestBodies ==
    {[hasTargetUrl |-> FALSE, targetUrl |-> ""], [hasTargetUrl |-> TRUE, targetUrl |-> ""]}
    \cup {[hasTargetUrl |-> TRUE, targetUrl |-> u] : u \in WellFormedUrls \cup MalformedUrls}

\* const { targetUrl } = req.body; !targetUrl is false
Truthy(b) == b.hasTargetUrl /\ b.targetUrl # ""

EncodeChar(c) ==
    CASE c = ":" -> "%3A"
      [] c = "/" -> "%2F"
      [] c = "?" -> "%3F"
      [] c = "=" -> "%3D"
      [] c = " " -> "%20"
      [] OTHER -> c

\* encodeURIComponent
RECURSIVE EncodeURIComponent(_)
EncodeURIComponent(u) ==
    IF u = "" THEN "" ELSE EncodeChar(At(u, 1)) \o EncodeURIComponent(From(u, 2))

WaybackApiUrl(u) == "https://archive.org/wayback/available?url=" \o EncodeURIComponent(u)

MinBodyLength == 100

\* html.trim().length, worked out once for each body of the model
TrimmedLengthOf == [b \in Bodies |-> Len(Trim(b))]

TrimmedLength(h) == IF h \in Bodies THEN TrimmedLengthOf[h] ELSE Len(Trim(h))

\* html && html.trim().length > 100
Acceptable(h) == h # "" /\ TrimmedLength(h) > MinBodyLength

\* contentType.includes('text/html')
IsHtmlType(contentType) == Includes(contentType, "text/html")

\* the fallback page of Strategy 4 (the rules of its style block left out)
Placeholder(u) ==
    "\n<!DOCTYPE html>\n<html lang=\"en\">\n<head>\n<meta charset=\"UTF-8\">\n"
    \o "<meta name=\"viewport\" content=\"width=device-width, initial-scale=1.0\">\n"
    \o "<title>Educational Content - " \o UrlHostname(u) \o "</title>\n<style></style>\n</head>\n"
    \o "<body>\n<div class=\"container\">\n<h1>Educational Content Access</h1>\n"
    \o "<p>We're having trouble loading the educational content from this source.</p>\n"
    \o "<div class=\"url\">" \o u \o "</div>\n"
    \o "<div class=\"actions\">\n<a href=\"" \o u \o "\" target=\"_blank\" class=\"btn btn-primary\">"
    \o "Open Original Source</a>\n"
    \o "<button onclick=\"window.parent.location.reload()\" class=\"btn btn-secondary\">"
    \o "Try Again</button>\n</div>\n</div>\n"
    \o "<script>setTimeout(() => { if (confirm('Would you like to open the original educational "
    \o "resource in a new tab?')) { window.open('" \o u \o "', '_blank'); } }, 3000);</script>\n"
    \o "</body>\n</html>\n"

(***************************************************************************)
(* The handler of POST /api/proxy/content.  It is an async function: it    *)
(* runs from one await of an outbound call to the next, so an action is    *)
(* the code between two awaits.                                            *)
(***************************************************************************)

VARIABLES
    pc,           \* where the handler stands: "idle", the call it awaits, "done"
    targetUrl,    \* req.body.targetUrl
    html,         \* let html
    success,      \* let success
    fetchMethod,  \* let fetchMethod
    attempted,    \* the strategies whose try block was entered, in order
    calls,        \* the outbound calls issued, in order
    inflight,     \* the outbound calls issued and not yet settled
    got,          \* how each outbound call of this request settled
    rewritten,    \* the post-processing block ran to its end
    res           \* the response: status 0 until one is sent

handlerVars == <<pc, targetUrl, html, success, fetchMethod, attempted, calls, inflight, got,
                 rewritten, res>>

\* the rewrite transforms on their own: a document is put through them
\* again and again
VARIABLES
    doc,          \* the document as it was fetched
    src,          \* the URL it was fetched for
    out,          \* the document after the passes made so far
    passes        \* how many times the transforms have been applied

rewriteVars == <<doc, src, out, passes>>

\* the readiness script of the injected fallbackScript, running in the page
VARIABLES
    now,          \* Date.now() - loadStartTime, in milliseconds
    timers,       \* the pending setTimeout callbacks, each with the time it is due
    readyChecks,  \* let readyChecks
    hasLoaded,    \* let hasLoaded
    overlay,      \* the loader element: "shown", "hidden" (class added), "removed"
    readyState,   \* document.readyState when the script last looked
    fired         \* what has happened in the page: "dcl", "load", "error", "content"

scriptVars == <<now, timers, readyChecks, hasLoaded, overlay, readyState, fired>>

\* the server with several requests in progress at once, and the state its
\* handlers share
VARIABLES
    reqs,               \* the content requests in progress, each with its own locals
    prox,               \* the plain-proxy requests in progress
    activeConnections,  \* let activeConnections of registerRoutes
    proxyRequests,      \* MemStorage.proxyRequests, in insertion order
    proxyStats          \* MemStorage.proxyStats

sharedVars == <<activeConnections, proxyRequests, proxyStats>>

serverVars == <<reqs, prox, activeConnections, proxyRequests, proxyStats>>

\* the log store driven operation by operation
VARIABLES
    created,     \* the createProxyRequest calls since the process started
    sinceClear,  \* the createProxyRequest calls since the last clearProxyRequests
    returned     \* what the last reading operation returned

storeVars == <<created, sinceClear, returned>>

\* the RequestLogs component
VARIABLES
    page,      \* const [page, setPage] = useState(0)
    data,      \* the data of the query for the current page
    mutation   \* the clear that was sent and has not called onSuccess yet

viewVars == <<page, data, mutation>>

\* the page opened by the "New Tab (Masked)" method
VARIABLES
    clock,            \* milliseconds since the page's script started
    pending,          \* the timers of the page that are set
    contentLoaded,    \* let contentLoaded
    hasShownContent,  \* let hasShownContent
    hasIframeLoaded,  \* let hasIframeLoaded of loadContent
    loadState,        \* where loadContent stands
    presented         \* hideLoader's reveals and directRedirect's starts, in order

maskedVars == <<clock, pending, contentLoaded, hasShownContent, hasIframeLoaded, loadState,
                presented>>

clientVars == <<storeVars, viewVars, maskedVars>>

vars == <<handlerVars, rewriteVars, scriptVars, serverVars, clientVars>>

CallKinds == {"direct", "mobile", "lookup", "archived"}

\* signal: AbortSignal.timeout(...) of each outbound call, in milliseconds
TimeoutMs(kind) ==
    CASE kind = "direct" -> 20000 [] kind = "mobile" -> 15000 [] kind = "lookup" -> 10000
      [] kind = "archived" -> 15000

NoResponse == [status |-> 0, headers |-> {}, json |-> FALSE, body |-> ""]

\* res.status(status).json({ message })
JsonResponse(status, message) ==
    [status |-> status, headers |-> {<<"Content-Type", "application/json; charset=utf-8">>},
     json |-> TRUE, body |-> message]

\* the res.setHeader calls before res.send
HtmlHeaders ==
    { <<"Content-Type", "text/html; charset=utf-8">>,
      <<"X-Frame-Options", "ALLOWALL">>,
      <<"Content-Security-Policy", "frame-ancestors *; script-src 'self' 'unsafe-inline' 'unsafe-eval' *; style-src 'self' 'unsafe-inline' *; img-src 'self' data: *; font-src 'self' *; connect-src 'self' *;">>,
      <<"Access-Control-Allow-Origin", "*">>,
      <<"Cache-Control", "no-cache, no-store, must-revalidate">>,
      <<"Pragma", "no-cache">>,
      <<"Expires", "0">> }

\* the handler's locals and the response, as one value
Frame ==
    [pc |-> pc, targetUrl |-> targetUrl, html |-> html, success |-> success,
     fetchMethod |-> fetchMethod, attempted |-> attempted, calls |-> calls,
     inflight |-> inflight, got |-> got, rewritten |-> rewritten, res |-> res]

\* the state a request starts from: let html = '', success = false,
\* fetchMethod = 'none'
NewFrame(u) ==
    [pc |-> "idle", targetUrl |-> u, html |-> "", success |-> FALSE, fetchMethod |-> "none",
     attempted |-> <<>>, calls |-> <<>>, inflight |-> {},
     got |-> [k \in CallKinds |-> NoOutcome], rewritten |-> FALSE, res |-> NoResponse]

\* the handler goes on from frame f
Becomes(f) ==
    /\ pc' = f.pc
    /\ targetUrl' = f.targetUrl
    /\ html' = f.html
    /\ success' = f.success
    /\ fetchMethod' = f.fetchMethod
    /\ attempted' = f.attempted
    /\ calls' = f.calls
    /\ inflight' = f.inflight
    /\ got' = f.got
    /\ rewritten' = f.rewritten
    /\ res' = f.res
    /\ UNCHANGED <<rewriteVars, scriptVars, serverVars, clientVars>>

\* await fetch(url, ...): the call goes out and the handler waits for it
Await(f, kind, url) ==
    [f EXCEPT !.pc = kind,
              !.calls = Append(@, [kind |-> kind, url |-> url]),
              !.inflight = @ \cup {kind}]

\* the call the handler waits for settles with outcome o
Settled(f, kind, o) == [f EXCEPT !.inflight = @ \ {kind}, !.got[kind] = o]

\* the outer catch: res.status(500).json(...)
Fail500(f) == [f EXCEPT !.pc = "done", !.res = JsonResponse(500, "Failed to fetch content")]

\* the fallback condition without its !success: if (!html || ...) only
NeedsFallbackIgnoresSuccess(f) == f.html = "" \/ TrimmedLength(f.html) < MinBodyLength

\* "Strategy 4": if (!success || !html || html.trim().length < 100) build the
\* fallback page; new URL(targetUrl) throws on a targetUrl that does not parse
NeedsFallback(f) == ~f.success \/ f.html = "" \/ TrimmedLength(f.html) < MinBodyLength

\* the rewrite transforms, then the two injecting replaces
Enhance(h, u) == Inject(Rewrite(h, BaseUrl(u)))

\* the same, worked out once for each body and URL of the model
EnhancedOf == [h \in Bodies, u \in WellFormedUrls |-> Enhance(h, u)]

Enhanced(h, u) == IF h \in Bodies THEN EnhancedOf[h, u] ELSE Enhance(h, u)

\* Process without the success test of its if
ProcessAnyOutcome(f) ==
    IF f.html # "" /\ UrlParses(f.targetUrl)
    THEN [f EXCEPT !.html = Enhanced(f.html, f.targetUrl), !.rewritten = TRUE]
    ELSE f

\* "Process and enhance the HTML content": if (success && html), inside its
\* own try; new URL(targetUrl) is its first statement and throws on a
\* targetUrl that does not parse, which the catch only logs
Process(f) ==
    IF f.success /\ f.html # "" /\ UrlParses(f.targetUrl)
    THEN [f EXCEPT !.html = Enhanced(f.html, f.targetUrl), !.rewritten = TRUE]
    ELSE f

\* Send without the Cache-Control header
SendCacheable(f) ==
    [f EXCEPT !.pc = "done",
              !.res = [status |-> 200,
                       headers |-> {h \in HtmlHeaders : h[1] # "Cache-Control"},
                       json |-> FALSE, body |-> f.html]]

\* the headers, then res.send(html)
Send(f) ==
    [f EXCEPT !.pc = "done",
              !.res = [status |-> 200, headers |-> HtmlHeaders, json |-> FALSE, body |-> f.html]]

\* Finish with the processing block outside any try of its own: its
\* new URL(targetUrl) throws into the outer catch
FinishUncaught(f) ==
    IF NeedsFallback(f) \/ ~UrlParses(f.targetUrl)
    THEN IF UrlParses(f.targetUrl)
         THEN Send(Process([f EXCEPT !.html = Placeholder(f.targetUrl),
                                     !.fetchMethod = "fallback"]))
         ELSE Fail500(f)
    ELSE Send(Process(f))

\* from the fallback test to the end of the handler
Finish(f) ==
    IF NeedsFallback(f)
    THEN IF UrlParses(f.targetUrl)
         THEN Send(Process([f EXCEPT !.html = Placeholder(f.targetUrl),
                                     !.fetchMethod = "fallback"]))
         ELSE Fail500(f)
    ELSE Send(Process(f))

\* StartWayback without its if (!success)
StartWaybackUnguarded(f) ==
    Await([f EXCEPT !.attempted = Append(@, "wayback")], "lookup", WaybackApiUrl(f.targetUrl))

\* "Strategy 3": if (!success), the snapshot lookup goes out
StartWayback(f) ==
    IF f.success THEN Finish(f)
    ELSE Await([f EXCEPT !.attempted = Append(@, "wayback")], "lookup",
               WaybackApiUrl(f.targetUrl))

\* StartMobile with strategy 2 left out of the chain
StartMobileSkipped(f) == StartWayback(f)

\* "Strategy 2": if (!success), the fetch with the mobile identity; fetch
\* rejects at once on a URL it cannot take, and the catch goes on
StartMobile(f) ==
    IF f.success THEN StartWayback(f)
    ELSE IF UrlFetchable(f.targetUrl)
         THEN Await([f EXCEPT !.attempted = Append(@, "mobile")], "mobile", f.targetUrl)
         ELSE StartWayback([f EXCEPT !.attempted = Append(@, "mobile")])

\* "Strategy 1": the fetch with the desktop identity
StartDirect(f) ==
    IF UrlFetchable(f.targetUrl)
    THEN Await([f EXCEPT !.attempted = Append(@, "direct")], "direct", f.targetUrl)
    ELSE StartMobile([f EXCEPT !.attempted = Append(@, "direct")])

\* strategies 1 and 2 on their response: ok, then the content type, then the
\* body is read into html, then its length decides
Classify(f, o, method) ==
    IF Ok(o) /\ IsHtmlType(o.contentType)
    THEN IF Acceptable(o.body)
         THEN [f EXCEPT !.html = o.body, !.success = TRUE, !.fetchMethod = method]
         ELSE [f EXCEPT !.html = o.body]
    ELSE f

\* strategy 3 on the snapshot's response: ok, then the body is read into
\* html, then its length decides
ClassifyArchived(f, o) ==
    IF Ok(o)
    THEN IF Acceptable(o.body)
         THEN [f EXCEPT !.html = o.body, !.success = TRUE, !.fetchMethod = "wayback"]
         ELSE [f EXCEPT !.html = o.body]
    ELSE f

\* SnapshotAvailable testing closest alone, not closest.available
SnapshotAvailableAnyClosest(d) == d.hasSnapshots /\ d.hasClosest

\* waybackData.archived_snapshots?.closest?.available
SnapshotAvailable(d) == d.hasSnapshots /\ d.hasClosest /\ d.available

\* strategy 3 on the lookup's response: ok, json(), the available test, then
\* the snapshot fetch goes out; json() throws on a body that is not JSON,
\* the property read throws on null, fetch rejects at once without a url
AfterLookup(f, o) ==
    IF Ok(o) /\ o.data.parses /\ ~o.data.isNull /\ SnapshotAvailable(o.data) /\ o.data.url # ""
    THEN Await(f, "archived", o.data.url)
    ELSE Finish(f)

\* a request arrives: 400 without a targetUrl, else the chain starts
ContentRequest ==
    /\ pc \in {"idle", "done"}
    /\ \E b \in RequestBodies :
           IF ~Truthy(b)
           THEN Becomes([NewFrame(b.targetUrl) EXCEPT
                             !.pc = "done",
                             !.res = JsonResponse(400, "Target URL is required")])
           ELSE Becomes(StartDirect(NewFrame(b.targetUrl)))

DirectSettled ==
    /\ pc = "direct"
    /\ \E o \in FetchOutcomes :
           Becomes(StartMobile(Classify(Settled(Frame, "direct", o), o, "direct")))

MobileSettled ==
    /\ pc = "mobile"
    /\ \E o \in FetchOutcomes :
           Becomes(StartWayback(Classify(Settled(Frame, "mobile", o), o, "mobile")))

LookupSettled ==
    /\ pc = "lookup"
    /\ \E o \in LookupOutcomes : Becomes(AfterLookup(Settled(Frame, "lookup", o), o))

ArchivedSettled ==
    /\ pc = "archived"
    /\ \E o \in FetchOutcomes :
           Becomes(Finish(ClassifyArchived(Settled(Frame, "archived", o), o)))

\* MemStorage after its constructor: no logged request, the stats zeroed
\* (serverPort, uptime and lastUpdated left out)
NewStats == [activeConnections |-> 0, totalRequests |-> 0]

NumContent == 2

NumProxy == 2

ContentSlots == 1..NumContent

ProxySlots == 1..NumProxy

\* a plain-proxy request that has not arrived
NoProxy ==
    [pc |-> "idle", body |-> [hasTargetUrl |-> FALSE, targetUrl |-> ""], response |-> NoOutcome,
     logged |-> <<>>, res |-> NoResponse]

\* the server as registerRoutes leaves it: no request in progress
ServerIdle ==
    /\ reqs = [r \in ContentSlots |-> NewFrame("")]
    /\ prox = [p \in ProxySlots |-> NoProxy]
    /\ activeConnections = 0
    /\ proxyRequests = <<>>
    /\ proxyStats = NewStats

\* nothing read from the store
NoAnswer == [op |-> "none", value |-> <<>>]

\* the query has no data yet (isLoading)
Loading == [loaded |-> FALSE, requests |-> 0, total |-> 0]

\* no operation on the store yet, no view mounted, no masked page opened
ClientIdle ==
    /\ created = 0
    /\ sinceClear = 0
    /\ returned = NoAnswer
    /\ page = 0
    /\ data = Loading
    /\ mutation = "none"
    /\ clock = 0
    /\ pending = {}
    /\ contentLoaded = FALSE
    /\ hasShownContent = FALSE
    /\ hasIframeLoaded = FALSE
    /\ loadState = "none"
    /\ presented = <<>>

\* no request yet
HandlerIdle ==
    /\ pc = "idle"
    /\ targetUrl = ""
    /\ html = ""
    /\ success = FALSE
    /\ fetchMethod = "none"
    /\ attempted = <<>>
    /\ calls = <<>>
    /\ inflight = {}
    /\ got = [k \in CallKinds |-> NoOutcome]
    /\ rewritten = FALSE
    /\ res = NoResponse

\* no document in the transforms
RewriteIdle == doc = "" /\ src = "" /\ out = "" /\ passes = 0

\* no page is running the readiness script
ScriptIdle ==
    /\ now = 0
    /\ timers = {}
    /\ readyChecks = 0
    /\ hasLoaded = FALSE
    /\ overlay = "none"
    /\ readyState = "none"
    /\ fired = {}

Init == HandlerIdle /\ RewriteIdle /\ ScriptIdle /\ ServerIdle /\ ClientIdle

Next == ContentRequest \/ DirectSettled \/ MobileSettled \/ LookupSettled \/ ArchivedSettled

Spec == Init /\ [][Next]_vars

(***************************************************************************)
(* The rewrite transforms as a function of the document and its source     *)
(* URL: any of the documents below, any URL that parses, and the           *)
(* transforms applied up to MaxPasses times.                               *)
(***************************************************************************)

\* style rules and an inline style with url(...), a form, a link to "/"
StyledDoc ==
    "<html><head><style>body{background:url(/img/bg.png)}</style></head>"
    \o "<body><div style='background-image:url(\"/img/hero.jpg\")'></div>"
    \o "<form action='/search'><input name=\"q\"></form><a href=\"/\">Home</a></body></html>"

\* a document with a base tag of its own
BasedDoc ==
    "<html><head><base href=\"https://cdn.example.net/assets/\"><title>T</title></head>"
    \o "<body><a href=\"/docs\">Docs</a></body></html>"

\* the same in upper case
UpperBaseDoc ==
    "<HTML><HEAD><BASE HREF=\"https://cdn.example.net/assets/\"><TITLE>T</TITLE></HEAD>"
    \o "<BODY><P>text</P></BODY></HTML>"

\* a base tag with a line break after its name
SpacedBaseDoc ==
    "<html><head><base\n  href=\"https://cdn.example.net/\"></head><body><p>text</p></body></html>"

\* no head tag, but a header element
HeaderDoc == "<header class=\"top\"><h1>Site</h1></header><p>text</p><img src=\"/a.png\">"

\* the meta tags the transforms remove
MetaDoc ==
    "<html><head><meta http-equiv=\"X-Frame-Options\" content=\"DENY\">"
    \o "<meta name='viewport' content='width=1'><meta charset=\"utf-8\"></head>"
    \o "<body><img src=\"/a.png\"></body></html>"

\* a protocol-relative reference beside a root-relative one
ProtocolRelativeDoc ==
    "<html><head><link rel=\"stylesheet\" href=\"//cdn.example.net/x.css\"></head>"
    \o "<body><script src=\"/app.js\"></script></body></html>"

\* the archive's playback block inside a script
PlaybackDoc ==
    "<html><head><script>/* playback timers */ var t = 1; /* End Wayback Rewrite */"
    \o "</script></head><body><a href='/a'>a</a></body></html>"

\* references that are not root-relative: document-relative, absolute and
\* protocol-relative ones, in attributes and in url(...)
RelativeDoc ==
    "<html><head><link rel=\"stylesheet\" href=\"css/site.css\">"
    \o "<style>a{background:url(img/a.png)}b{background:url(//cdn.example.net/b.png)}"
    \o "c{background:url('https://cdn.example.net/c.png')}</style></head>"
    \o "<body><a href=\"../up.html\">up</a><a href='https://other.example.org/x'>x</a>"
    \o "<img src=\"//cdn.example.net/i.png\"><form action=\"search\"></form>"
    \o "<a href=\"/docs\">Docs</a></body></html>"

Documents ==
    {FullDoc, ShortDoc, HeadlessDoc, ArchivedDoc, ArtifactDoc, StyledDoc, BasedDoc,
     UpperBaseDoc, SpacedBaseDoc, HeaderDoc, MetaDoc, ProtocolRelativeDoc, PlaybackDoc,
     RelativeDoc}

MaxPasses == 2

RewriteInit ==
    /\ HandlerIdle
    /\ ScriptIdle
    /\ ServerIdle
    /\ ClientIdle
    /\ \E h \in Documents, u \in WellFormedUrls :
           doc = h /\ src = u /\ out = h /\ passes = 0

\* one more pass of the transforms over the document
ApplyRewrite ==
    /\ passes < MaxPasses
    /\ out' = Rewrite(out, BaseUrl(src))
    /\ passes' = passes + 1
    /\ UNCHANGED <<doc, src, handlerVars, scriptVars, serverVars, clientVars>>

RewriteNext == ApplyRewrite

RewriteSpec == RewriteInit /\ [][RewriteNext]_vars

(***************************************************************************)
(* The readiness script (fallbackScript) in the page that received the     *)
(* document.  Time is the page's clock in milliseconds, read every TickMs; *)
(* a setTimeout callback runs at the first reading at or after its time.   *)
(***************************************************************************)

TickMs == 100

MaxTime == 21000

\* setTimeout(hideLoader, 20000)
Ceiling == 20000

\* let maxChecks = 30
MaxChecks == 30

\* setTimeout(checkIfReady, 500)
PollInterval == 500

\* setTimeout(checkIfReady, 100)
FirstCheckDelay == 100

\* const minLoadTime = 1500
MinLoadTime == 1500

\* timeElapsed > 15000
PollCeiling == 15000

\* setTimeout(hideLoader, 1000) on load
LoadDelay == 1000

\* setTimeout(hideLoader, 2000) on error
ErrorDelay == 2000

\* the setTimeout of 500 in hideLoader that removes the element
RemoveDelay == 500

\* the instants at which the page's events may happen
DclTimes == {0, 17300}

LoadTimes == {3000}

ErrorTimes == {700, 18500}

ContentTimes == {1000, 9000}

Timer(due, fn) == [due |-> due, fn |-> fn]

\* the clock reads the instant t, or the first reading after it
AtInstant(ts) == \E t \in ts : t <= now /\ now < t + TickMs

\* the timers set while the script body runs, without the unconditional one
StartTimersWithoutCeiling(rs) ==
    IF rs = "loading" THEN {} ELSE {Timer(FirstCheckDelay, "check")}

\* the timers set while the script body runs: the first check unless the
\* document is still loading, and setTimeout(hideLoader, 20000)
StartTimers(rs) ==
    {Timer(Ceiling, "hide")}
    \cup (IF rs = "loading" THEN {} ELSE {Timer(FirstCheckDelay, "check")})

\* the script body has run: the loader element is in the page
ScriptInit ==
    /\ HandlerIdle
    /\ RewriteIdle
    /\ ServerIdle
    /\ ClientIdle
    /\ now = 0
    /\ readyChecks = 0
    /\ hasLoaded = FALSE
    /\ overlay = "shown"
    /\ fired = {}
    /\ readyState \in {"loading", "interactive"}
    /\ timers = StartTimers(readyState)

\* the callbacks that are due, and the one the event loop runs next
Due == {t \in timers : t.due <= now}

NextDue(fn) == {t \in Due : t.fn = fn /\ \A o \in Due : t.due <= o.due}

\* function hideLoader(), ts being the other pending timers
HideLoader(ts) ==
    IF ~hasLoaded
    THEN /\ hasLoaded' = TRUE
         /\ overlay' = "hidden"
         /\ timers' = ts \cup {Timer(now + RemoveDelay, "remove")}
    ELSE /\ timers' = ts
         /\ UNCHANGED <<hasLoaded, overlay>>

\* a step of the page leaves the server's handler and the transforms alone
ScriptOnly == UNCHANGED <<handlerVars, rewriteVars, serverVars, clientVars>>

\* the clock moves on when no callback is due
Tick ==
    /\ now < MaxTime
    /\ Due = {}
    /\ now' = now + TickMs
    /\ UNCHANGED <<timers, readyChecks, hasLoaded, overlay, readyState, fired>>
    /\ ScriptOnly

\* checkIfReady going on to poll after it has hidden the loader
RunCheckKeepsPolling ==
    \E t \in NextDue("check") :
        /\ readyChecks' = readyChecks + 1
        /\ IF ("content" \in fired /\ now > MinLoadTime)
              \/ readyChecks + 1 >= MaxChecks
              \/ now > PollCeiling
           THEN HideLoader((timers \ {t}) \cup {Timer(now + PollInterval, "check")})
           ELSE /\ timers' = (timers \ {t}) \cup {Timer(now + PollInterval, "check")}
                /\ UNCHANGED <<hasLoaded, overlay>>
        /\ UNCHANGED <<now, readyState, fired>>
        /\ ScriptOnly

\* function checkIfReady()
RunCheck ==
    \E t \in NextDue("check") :
        /\ readyChecks' = readyChecks + 1
        /\ IF ("content" \in fired /\ now > MinLoadTime)
              \/ readyChecks + 1 >= MaxChecks
              \/ now > PollCeiling
           THEN HideLoader(timers \ {t})
           ELSE /\ timers' = (timers \ {t}) \cup {Timer(now + PollInterval, "check")}
                /\ UNCHANGED <<hasLoaded, overlay>>
        /\ UNCHANGED <<now, readyState, fired>>
        /\ ScriptOnly

\* a setTimeout(hideLoader, ...) callback
RunHide ==
    \E t \in NextDue("hide") :
        /\ HideLoader(timers \ {t})
        /\ UNCHANGED <<now, readyChecks, readyState, fired>>
        /\ ScriptOnly

\* the callback that takes the loader element out of the page
RunRemove ==
    \E t \in NextDue("remove") :
        /\ overlay' = "removed"
        /\ timers' = timers \ {t}
        /\ UNCHANGED <<now, readyChecks, hasLoaded, readyState, fired>>
        /\ ScriptOnly

\* the DOMContentLoaded listener
DomContentLoaded ==
    /\ readyState = "loading"
    /\ AtInstant(DclTimes)
    /\ readyState' = "interactive"
    /\ fired' = fired \cup {"dcl"}
    /\ timers' = timers \cup {Timer(now + FirstCheckDelay, "check")}
    /\ UNCHANGED <<now, readyChecks, hasLoaded, overlay>>
    /\ ScriptOnly

\* WindowLoad with a listener that sets no timer
WindowLoadUnhandled ==
    /\ readyState = "interactive"
    /\ "load" \notin fired
    /\ AtInstant(LoadTimes)
    /\ fired' = fired \cup {"load"}
    /\ UNCHANGED <<now, timers, readyChecks, hasLoaded, overlay, readyState>>
    /\ ScriptOnly

\* the load listener of the window
WindowLoad ==
    /\ readyState = "interactive"
    /\ "load" \notin fired
    /\ AtInstant(LoadTimes)
    /\ fired' = fired \cup {"load"}
    /\ timers' = timers \cup {Timer(now + LoadDelay, "hide")}
    /\ UNCHANGED <<now, readyChecks, hasLoaded, overlay, readyState>>
    /\ ScriptOnly

\* the error listener of the window
WindowError ==
    /\ AtInstant(ErrorTimes)
    /\ Timer(now + ErrorDelay, "hide") \notin timers
    /\ fired' = fired \cup {"error"}
    /\ timers' = timers \cup {Timer(now + ErrorDelay, "hide")}
    /\ UNCHANGED <<now, readyChecks, hasLoaded, overlay, readyState>>
    /\ ScriptOnly

\* the page's content becomes visible: hasVisibleContent is true from now on
ContentAppears ==
    /\ "content" \notin fired
    /\ AtInstant(ContentTimes)
    /\ fired' = fired \cup {"content"}
    /\ UNCHANGED <<now, timers, readyChecks, hasLoaded, overlay, readyState>>
    /\ ScriptOnly

ScriptNext ==
    \/ Tick
    \/ RunCheck
    \/ RunHide
    \/ RunRemove
    \/ DomContentLoaded
    \/ WindowLoad
    \/ WindowError
    \/ ContentAppears

\* the clock runs and the event loop runs every callback that is due
ScriptSpec ==
    /\ ScriptInit
    /\ [][ScriptNext]_vars
    /\ WF_vars(Tick)
    /\ WF_vars(RunCheck \/ RunHide \/ RunRemove)

(***************************************************************************)
(* The plain-proxy endpoint, POST /api/proxy/request, with several         *)
(* requests in progress.  The handler is an async function: an action is   *)
(* the code it runs from one await to the next, and the handlers of other  *)
(* requests run in between.                                                *)
(***************************************************************************)

\* the request bodies: no targetUrl, not a URL, an http URL, a URL fetch
\* does not take
ProxyBodies ==
    {[hasTargetUrl |-> FALSE, targetUrl |-> ""]}
    \cup {[hasTargetUrl |-> TRUE, targetUrl |-> u] :
              u \in {"not a url", "https://example.com/page", "ftp://files.example.com/pub"}}

\* the schema with z.string() in place of z.string().url()
SchemaAcceptsAnyString(b) == b.hasTargetUrl

\* proxyRequestBodySchema.parse(req.body) returns: targetUrl is a string
\* that z.string().url() accepts
SchemaAccepts(b) == b.hasTargetUrl /\ UrlParses(b.targetUrl)

\* how await fetch(targetUrl, ...) settles
ProxyFetchOutcomes(u) ==
    IF UrlFetchable(u)
    THEN {Thrown("neterr"), Response(200, HtmlType, ShortDoc), Response(503, HtmlType, "")}
    ELSE {Thrown("neterr")}

\* error.message of a rejected fetch, of a rejected response.text()
FetchFailedMessage == "fetch failed"

BodyFailedMessage == "terminated"

\* the InsertProxyRequest passed to createProxyRequest (duration and
\* userAgent left out), with the request that passed it
LogEntry(p, u, statusCode, responseSize, errorMessage) ==
    [id |-> p, targetUrl |-> u, method |-> "GET", statusCode |-> statusCode,
     responseSize |-> responseSize, errorMessage |-> errorMessage]

\* MemStorage.incrementTotalRequests
IncrementTotalRequests(st) == [st EXCEPT !.totalRequests = @ + 1]

\* MemStorage.updateActiveConnections
UpdateActiveConnections(st, count) == [st EXCEPT !.activeConnections = count]

\* Math.max(0, n)
Max0(n) == IF n < 0 THEN 0 ELSE n

\* ProxyLog with the entry created a second time
ProxyLogTwice(p, e, next) ==
    /\ proxyRequests' = Append(Append(proxyRequests, e), e)
    /\ proxyStats' = IncrementTotalRequests(IncrementTotalRequests(proxyStats))
    /\ prox' = [prox EXCEPT ![p].pc = next, ![p].logged = Append(Append(@, e), e)]
    /\ UNCHANGED activeConnections

\* await storage.createProxyRequest(e): the entry is stored and the total
\* counted before the call first yields; the handler goes on at next
ProxyLog(p, e, next) ==
    /\ proxyRequests' = Append(proxyRequests, e)
    /\ proxyStats' = IncrementTotalRequests(proxyStats)
    /\ prox' = [prox EXCEPT ![p].pc = next, ![p].logged = Append(@, e)]
    /\ UNCHANGED activeConnections

\* ProxyFinally without the decrement: the counter is stored as it is
ProxyFinallyKeepsCount(p, answer) ==
    /\ proxyStats' = UpdateActiveConnections(proxyStats, Max0(activeConnections))
    /\ prox' = [prox EXCEPT ![p].pc = "closing", ![p].res = answer]
    /\ UNCHANGED <<activeConnections, proxyRequests>>

\* finally: activeConnections--, then await storage.updateActiveConnections
ProxyFinally(p, answer) ==
    /\ activeConnections' = activeConnections - 1
    /\ proxyStats' = UpdateActiveConnections(proxyStats, Max0(activeConnections - 1))
    /\ prox' = [prox EXCEPT ![p].pc = "closing", ![p].res = answer]
    /\ UNCHANGED proxyRequests

\* a step of this endpoint leaves the rest of the model alone
ProxyOnly == UNCHANGED <<handlerVars, rewriteVars, scriptVars, reqs, clientVars>>

\* a request arrives: activeConnections++, then
\* await storage.updateActiveConnections(activeConnections)
ProxyArrives(p) ==
    /\ prox[p].pc = "idle"
    /\ \E b \in ProxyBodies : prox' = [prox EXCEPT ![p].pc = "parse", ![p].body = b]
    /\ activeConnections' = activeConnections + 1
    /\ proxyStats' = UpdateActiveConnections(proxyStats, activeConnections + 1)
    /\ UNCHANGED proxyRequests
    /\ ProxyOnly

\* the schema check: a ZodError is answered 400 and goes to the finally;
\* otherwise await fetch(targetUrl, ...)
ProxyParse(p) ==
    /\ prox[p].pc = "parse"
    /\ IF SchemaAccepts(prox[p].body)
       THEN /\ prox' = [prox EXCEPT ![p].pc = "fetch"]
            /\ UNCHANGED sharedVars
       ELSE ProxyFinally(p, JsonResponse(400, "Invalid request"))
    /\ ProxyOnly

\* the fetch settles: await response.text(), or the catch logs the failure
ProxyFetched(p) ==
    /\ prox[p].pc = "fetch"
    /\ \E o \in ProxyFetchOutcomes(prox[p].body.targetUrl) :
           IF o.kind = "response"
           THEN /\ prox' = [prox EXCEPT ![p].pc = "text", ![p].response = o]
                /\ UNCHANGED sharedVars
           ELSE ProxyLog(p, LogEntry(p, prox[p].body.targetUrl, 500, 0, FetchFailedMessage),
                         "fail")
    /\ ProxyOnly

\* the body is read and the upstream status and the size are logged; or the
\* read rejects and the catch logs the failure
ProxyBodyRead(p) ==
    /\ prox[p].pc = "text"
    /\ \/ ProxyLog(p, LogEntry(p, prox[p].body.targetUrl, prox[p].response.status,
                               Len(prox[p].response.body), ""),
                   "respond")
       \/ ProxyLog(p, LogEntry(p, prox[p].body.targetUrl, 500, 0, BodyFailedMessage), "fail")
    /\ ProxyOnly

\* after the log of a success: the upstream status and body are sent, then
\* the finally
ProxyResponds(p) ==
    /\ prox[p].pc = "respond"
    /\ ProxyFinally(p, [status |-> prox[p].response.status,
                        headers |-> {<<"content-type", prox[p].response.contentType>>},
                        json |-> FALSE, body |-> prox[p].response.body])
    /\ ProxyOnly

\* after the log of a failure: res.status(500).json(...), then the finally
ProxyFails(p) ==
    /\ prox[p].pc = "fail"
    /\ ProxyFinally(p, JsonResponse(500, "Proxy request failed"))
    /\ ProxyOnly

\* the await of the finally returns and the handler ends
ProxyCloses(p) ==
    /\ prox[p].pc = "closing"
    /\ prox' = [prox EXCEPT ![p].pc = "done"]
    /\ UNCHANGED sharedVars
    /\ ProxyOnly

ProxyInit == HandlerIdle /\ RewriteIdle /\ ScriptIdle /\ ServerIdle /\ ClientIdle

ProxyNext ==
    \E p \in ProxySlots :
        \/ ProxyArrives(p)
        \/ ProxyParse(p)
        \/ ProxyFetched(p)
        \/ ProxyBodyRead(p)
        \/ ProxyResponds(p)
        \/ ProxyFails(p)
        \/ ProxyCloses(p)

ProxySpec == ProxyInit /\ [][ProxyNext]_vars

(***************************************************************************)
(* Content requests in progress at once, beside a plain-proxy request.     *)
(* Each content request has the handler's locals of its own; the handler   *)
(* is the one modelled above, taken from one await to the next.            *)
(***************************************************************************)

IsolationUrls == {"https://example.com/page", "not a url"}

\* how the outbound calls settle here
IsolationOutcomes(kind) ==
    IF kind = "lookup"
    THEN {Thrown("timeout"),
          LookupResponse(200, [NoData EXCEPT !.parses = TRUE, !.hasSnapshots = TRUE,
                                             !.hasClosest = TRUE, !.available = TRUE,
                                             !.url = SnapshotUrl])}
    ELSE {Thrown("timeout"), Response(200, HtmlType, FullDoc)}

\* the handler goes on after the call it awaits settled with o
Resume(f, o) ==
    CASE f.pc = "direct" -> StartMobile(Classify(Settled(f, "direct", o), o, "direct"))
      [] f.pc = "mobile" -> StartWayback(Classify(Settled(f, "mobile", o), o, "mobile"))
      [] f.pc = "lookup" -> AfterLookup(Settled(f, "lookup", o), o)
      [] f.pc = "archived" -> Finish(ClassifyArchived(Settled(f, "archived", o), o))

\* a step of the content endpoint: only the request's own locals change
ContentOnly == UNCHANGED <<handlerVars, rewriteVars, scriptVars, prox, sharedVars, clientVars>>

\* ContentArrives counting the connection, as the plain-proxy handler does
ContentArrivesCounted(r) ==
    /\ reqs[r].pc = "idle"
    /\ \E u \in IsolationUrls : reqs' = [reqs EXCEPT ![r] = StartDirect(NewFrame(u))]
    /\ activeConnections' = activeConnections + 1
    /\ proxyStats' = UpdateActiveConnections(proxyStats, activeConnections + 1)
    /\ UNCHANGED <<handlerVars, rewriteVars, scriptVars, prox, proxyRequests, clientVars>>

\* a content request with a targetUrl arrives at slot r
ContentArrives(r) ==
    /\ reqs[r].pc = "idle"
    /\ \E u \in IsolationUrls : reqs' = [reqs EXCEPT ![r] = StartDirect(NewFrame(u))]
    /\ ContentOnly

\* the call request r awaits settles
ContentSettles(r) ==
    /\ reqs[r].pc \in CallKinds
    /\ \E o \in IsolationOutcomes(reqs[r].pc) : reqs' = [reqs EXCEPT ![r] = Resume(reqs[r], o)]
    /\ ContentOnly

IsolationNext ==
    \/ \E r \in ContentSlots : ContentArrives(r) \/ ContentSettles(r)
    \/ ProxyArrives(1)
    \/ ProxyParse(1)
    \/ ProxyFetched(1)
    \/ ProxyBodyRead(1)
    \/ ProxyResponds(1)
    \/ ProxyFails(1)
    \/ ProxyCloses(1)

IsolationSpec == ProxyInit /\ [][IsolationNext]_vars

(***************************************************************************)
(* MemStorage driven by the operations the routes invoke, one at a time:   *)
(* each method runs to its end without yielding.                           *)
(***************************************************************************)

MaxCreates == 4

\* the limit and offset of a listing
ListLimit == 2

ListOffsets == {0, 2}

\* the requests a create may record, rid being the id the record gets
StoreEntries(rid) ==
    {LogEntry(rid, "https://example.com/page", 200, 46, ""),
     LogEntry(rid, "https://example.com/page", 500, 0, FetchFailedMessage)}

\* newest first: requests.sort((a, b) => b.timestamp - a.timestamp)
NewestFirst(log) == [i \in 1..Len(log) |-> log[Len(log) + 1 - i]]

\* requests.slice(offset, offset + limit)
SliceFrom(log, offset, limit) ==
    SubSeq(log, offset + 1, IF offset + limit < Len(log) THEN offset + limit ELSE Len(log))

\* a step of the store leaves the handlers, the pages and the view alone
StoreOnly ==
    UNCHANGED <<handlerVars, rewriteVars, scriptVars, reqs, prox, activeConnections, viewVars,
                maskedVars>>

\* createProxyRequest
StoreCreate ==
    /\ created < MaxCreates
    /\ \E e \in StoreEntries(created + 1) : proxyRequests' = Append(proxyRequests, e)
    /\ proxyStats' = IncrementTotalRequests(proxyStats)
    /\ created' = created + 1
    /\ sinceClear' = sinceClear + 1
    /\ UNCHANGED returned
    /\ StoreOnly

\* getProxyRequests(limit, offset)
StoreList ==
    /\ \E offset \in ListOffsets :
           returned' = [op |-> "list",
                        value |-> SliceFrom(NewestFirst(proxyRequests), offset, ListLimit)]
    /\ UNCHANGED <<proxyRequests, proxyStats, created, sinceClear>>
    /\ StoreOnly

\* getProxyRequestCount
StoreCount ==
    /\ returned' = [op |-> "count", value |-> <<Len(proxyRequests)>>]
    /\ UNCHANGED <<proxyRequests, proxyStats, created, sinceClear>>
    /\ StoreOnly

\* clearProxyRequests with the total set back as well
StoreClearResetsTotal ==
    /\ proxyRequests' = <<>>
    /\ proxyStats' = [proxyStats EXCEPT !.totalRequests = 0]
    /\ sinceClear' = 0
    /\ UNCHANGED <<created, returned>>
    /\ StoreOnly

\* clearProxyRequests
StoreClear ==
    /\ proxyRequests' = <<>>
    /\ sinceClear' = 0
    /\ UNCHANGED <<proxyStats, created, returned>>
    /\ StoreOnly

\* getProxyStats (uptime and lastUpdated left out)
StoreGetStats ==
    /\ returned' = [op |-> "stats", value |-> <<proxyStats>>]
    /\ UNCHANGED <<proxyRequests, proxyStats, created, sinceClear>>
    /\ StoreOnly

\* updateActiveConnections(count)
StoreUpdateActive ==
    /\ \E count \in 0..NumProxy : proxyStats' = UpdateActiveConnections(proxyStats, count)
    /\ UNCHANGED <<proxyRequests, created, sinceClear, returned>>
    /\ StoreOnly

StoreNext ==
    \/ StoreCreate
    \/ StoreList
    \/ StoreCount
    \/ StoreClear
    \/ StoreGetStats
    \/ StoreUpdateActive

StoreSpec == ProxyInit /\ [][StoreNext]_vars

(***************************************************************************)
(* The RequestLogs view of the client, with the server's log behind it.    *)
(* The query's data is what the last answer of GET /api/proxy/requests for *)
(* the current page held; a change of page starts a query without data.    *)
(***************************************************************************)

\* const limit = 10
PageLimit == 10

MaxLogged == 12

\* Math.ceil(data.total / limit), 0 without data
TotalPages(d) == IF d.loaded THEN (d.total + PageLimit - 1) \div PageLimit ELSE 0

\* how many records storage.getProxyRequests(limit, offset) returns for the
\* page pg when the log holds n
Rows(n, pg) ==
    IF n <= pg * PageLimit THEN 0
    ELSE IF n - pg * PageLimit > PageLimit THEN PageLimit ELSE n - pg * PageLimit

\* the pagination buttons are rendered: there is data and it has rows
ButtonsShown == data.loaded /\ data.requests > 0

\* a step of the view leaves the handlers, the store's counters and the
\* masked page alone
ViewOnly ==
    UNCHANGED <<handlerVars, rewriteVars, scriptVars, reqs, prox, activeConnections, storeVars,
                maskedVars>>

\* the query is answered: { requests, total } as the server holds them now
ViewFetched ==
    /\ data' = [loaded |-> TRUE, requests |-> Rows(Len(proxyRequests), page),
                total |-> Len(proxyRequests)]
    /\ UNCHANGED <<page, mutation, proxyRequests, proxyStats>>
    /\ ViewOnly

\* Next: setPage(Math.min(totalPages - 1, page + 1)), disabled when
\* page >= totalPages - 1
ViewNextPage ==
    /\ ButtonsShown
    /\ page < TotalPages(data) - 1
    /\ page' = (IF TotalPages(data) - 1 < page + 1 THEN TotalPages(data) - 1 ELSE page + 1)
    /\ data' = Loading
    /\ UNCHANGED <<mutation, proxyRequests, proxyStats>>
    /\ ViewOnly

\* Previous: setPage(Math.max(0, page - 1)), disabled when page === 0
ViewPreviousPage ==
    /\ ButtonsShown
    /\ page # 0
    /\ page' = Max0(page - 1)
    /\ data' = Loading
    /\ UNCHANGED <<mutation, proxyRequests, proxyStats>>
    /\ ViewOnly

\* the Clear button of RequestLogs: the DELETE is handled by the server
ViewClearLogs ==
    /\ data.loaded
    /\ mutation = "none"
    /\ mutation' = "logs"
    /\ proxyRequests' = <<>>
    /\ UNCHANGED <<page, data, proxyStats>>
    /\ ViewOnly

\* clearLogsMutation.onSuccess: the query is invalidated and setPage(0)
ViewLogsCleared ==
    /\ mutation = "logs"
    /\ mutation' = "none"
    /\ page' = 0
    /\ data' = (IF page = 0 THEN data ELSE Loading)
    /\ UNCHANGED <<proxyRequests, proxyStats>>
    /\ ViewOnly

\* the Clear Cache button of QuickActions: the DELETE is handled by the
\* server; its onSuccess invalidates the query and sets no page
ViewClearCache ==
    /\ proxyRequests # <<>>
    /\ proxyRequests' = <<>>
    /\ UNCHANGED <<page, data, mutation, proxyStats>>
    /\ ViewOnly

\* a proxied request is logged
ViewLogCreated ==
    /\ proxyStats.totalRequests < MaxLogged
    /\ proxyRequests' = Append(proxyRequests,
                               LogEntry(proxyStats.totalRequests + 1, "https://example.com/page",
                                        200, 46, ""))
    /\ proxyStats' = IncrementTotalRequests(proxyStats)
    /\ UNCHANGED <<page, data, mutation>>
    /\ ViewOnly

ViewNext ==
    \/ ViewFetched
    \/ ViewNextPage
    \/ ViewPreviousPage
    \/ ViewClearLogs
    \/ ViewLogsCleared
    \/ ViewClearCache
    \/ ViewLogCreated

ViewSpec == ProxyInit /\ [][ViewNext]_vars

(***************************************************************************)
(* The script of the page opened by the "New Tab (Masked)" method.  Its    *)
(* callbacks run one at a time; a timer's callback runs at the first       *)
(* reading of the clock at or after its time.                              *)
(***************************************************************************)

MaskedTickMs == 500

MaxClock == 12000

\* setTimeout(() => controller.abort(), 10000)
AbortDelay == 10000

\* the fallback timer set with iframe.src
IframeTimeout == 5000

\* the ultimate fallback timer
UltimateDelay == 8000

\* the delay between directRedirect and window.location.href = targetUrl
RedirectDelay == 1500

\* the page's script has run to its end: loadContent awaits its fetch
MaskedInit ==
    /\ HandlerIdle
    /\ RewriteIdle
    /\ ScriptIdle
    /\ ServerIdle
    /\ created = 0
    /\ sinceClear = 0
    /\ returned = NoAnswer
    /\ page = 0
    /\ data = Loading
    /\ mutation = "none"
    /\ clock = 0
    /\ pending = {Timer(AbortDelay, "abort"), Timer(UltimateDelay, "ultimate")}
    /\ contentLoaded = FALSE
    /\ hasShownContent = FALSE
    /\ hasIframeLoaded = FALSE
    /\ loadState = "fetching"
    /\ presented = <<>>

\* the timers that are due, and whether fn is the next of them to run
MaskedDue == {t \in pending : t.due <= clock}

MaskedNextDue(fn) == {t \in MaskedDue : t.fn = fn /\ \A o \in MaskedDue : t.due <= o.due}

\* function hideLoader(), ts being the timers left pending
MaskedHideLoader(ts) ==
    /\ pending' = ts
    /\ IF ~contentLoaded
       THEN /\ contentLoaded' = TRUE
            /\ hasShownContent' = TRUE
            /\ presented' = Append(presented, "iframe")
       ELSE UNCHANGED <<contentLoaded, hasShownContent, presented>>

\* function directRedirect(), ts being the timers left pending
DirectRedirect(ts) ==
    /\ hasShownContent' = TRUE
    /\ presented' = Append(presented, "redirect")
    /\ pending' = ts \cup {Timer(clock + RedirectDelay, "navigate")}
    /\ UNCHANGED contentLoaded

\* if (!hasShownContent) directRedirect()
RedirectUnlessShown(ts) ==
    IF ~hasShownContent
    THEN DirectRedirect(ts)
    ELSE /\ pending' = ts
         /\ UNCHANGED <<contentLoaded, hasShownContent, presented>>

\* a step of the masked page leaves everything else alone
MaskedOnly == UNCHANGED <<handlerVars, rewriteVars, scriptVars, serverVars, storeVars, viewVars>>

\* the page is still there
MaskedAlive == loadState # "gone"

\* time passes while no callback is due
MaskedTick ==
    /\ MaskedAlive
    /\ clock < MaxClock
    /\ MaskedDue = {}
    /\ clock' = clock + MaskedTickMs
    /\ UNCHANGED <<pending, contentLoaded, hasShownContent, hasIframeLoaded, loadState,
                   presented>>
    /\ MaskedOnly

\* the fetch answers with an HTML body of more than 100 characters: the
\* handlers are set on the iframe, its src is set and the 5 s timer started
FetchGivesPage ==
    /\ loadState = "fetching"
    /\ loadState' = "iframe"
    /\ pending' = {t \in pending : t.fn # "abort"}
                      \cup {Timer(clock + IframeTimeout, "iframeTimeout")}
    /\ UNCHANGED <<clock, contentLoaded, hasShownContent, hasIframeLoaded, presented>>
    /\ MaskedOnly

\* the fetch rejects, or answers with something else than a usable page:
\* the catch of loadContent
FetchFails ==
    /\ loadState = "fetching"
    /\ loadState' = "ended"
    /\ RedirectUnlessShown(pending)
    /\ UNCHANGED <<clock, hasIframeLoaded>>
    /\ MaskedOnly

\* controller.abort() after 10 s: a fetch still pending rejects
AbortFires ==
    /\ MaskedAlive
    /\ \E t \in MaskedNextDue("abort") :
           IF loadState = "fetching"
           THEN /\ loadState' = "ended"
                /\ RedirectUnlessShown(pending \ {t})
           ELSE /\ pending' = pending \ {t}
                /\ UNCHANGED <<loadState, contentLoaded, hasShownContent, presented>>
    /\ UNCHANGED <<clock, hasIframeLoaded>>
    /\ MaskedOnly

\* iframe.onload
IframeLoads ==
    /\ loadState \in {"iframe", "timedOut"}
    /\ loadState' = "loaded"
    /\ hasIframeLoaded' = TRUE
    /\ MaskedHideLoader({t \in pending : t.fn # "iframeTimeout"})
    /\ UNCHANGED clock
    /\ MaskedOnly

\* iframe.onerror
IframeErrors ==
    /\ loadState \in {"iframe", "timedOut"}
    /\ loadState' = "failed"
    /\ RedirectUnlessShown({t \in pending : t.fn # "iframeTimeout"})
    /\ UNCHANGED <<clock, hasIframeLoaded>>
    /\ MaskedOnly

\* the 5 s timer set with iframe.src
IframeTimeoutFires ==
    /\ MaskedAlive
    /\ \E t \in MaskedNextDue("iframeTimeout") :
           IF ~hasIframeLoaded /\ ~hasShownContent
           THEN DirectRedirect(pending \ {t})
           ELSE /\ pending' = pending \ {t}
                /\ UNCHANGED <<contentLoaded, hasShownContent, presented>>
    /\ loadState' = "timedOut"
    /\ UNCHANGED <<clock, hasIframeLoaded>>
    /\ MaskedOnly

\* the ultimate fallback timer
UltimateFires ==
    /\ MaskedAlive
    /\ \E t \in MaskedNextDue("ultimate") : RedirectUnlessShown(pending \ {t})
    /\ UNCHANGED <<clock, hasIframeLoaded, loadState>>
    /\ MaskedOnly

\* window.location.href = targetUrl: the page is left, or it stays when the
\* target does not replace the document (a download, an empty answer)
Navigates ==
    /\ MaskedAlive
    /\ \E t \in MaskedNextDue("navigate") :
           \/ loadState' = "gone" /\ pending' = {}
           \/ loadState' = loadState /\ pending' = pending \ {t}
    /\ UNCHANGED <<clock, contentLoaded, hasShownContent, hasIframeLoaded, presented>>
    /\ MaskedOnly

MaskedNext ==
    \/ MaskedTick
    \/ FetchGivesPage
    \/ FetchFails
    \/ AbortFires
    \/ IframeLoads
    \/ IframeErrors
    \/ IframeTimeoutFires
    \/ UltimateFires
    \/ Navigates

MaskedSpec == MaskedInit /\ [][MaskedNext]_vars

(***************************************************************************)
(* The claims about the content endpoint.                                  *)
(***************************************************************************)

\* the kinds of the outbound calls issued so far
CallsIssued == {calls[i].kind : i \in 1..Len(calls)}

\* the order of the chain
StrategyOrder == <<"direct", "mobile", "wayback">>

\* the source tag of the strategy an outbound fetch belongs to
TagOf(kind) == IF kind \in {"lookup", "archived"} THEN "wayback" ELSE kind

\* the place of a call in the order of the chain
RankOf(kind) ==
    CASE kind = "direct" -> 1 [] kind = "mobile" -> 2 [] kind = "lookup" -> 3
      [] kind = "archived" -> 4

\* a response arrived and its status is in 200..299
SuccessStatus(o) == o.kind = "response" /\ o.status \in 200..299

\* a response whose trimmed body is shorter than the shortest body the
\* handler accepts, which has 101 characters
ShortBody(o) == Len(Trim(o.body)) <= MinBodyLength

\* the request carried a targetUrl and a response to it has been sent
Answered == pc = "done" /\ targetUrl # ""

\* C1: for a well-formed targetUrl, whatever the upstream servers answer, the
\* endpoint finishes with status 200 and a non-empty HTML body, never a 5xx.
C1_AlwaysSucceeds ==
    (pc = "done" /\ targetUrl \in WellFormedUrls)
        => (res.status = 200 /\ ~res.json /\ res.body # "")

\* C2: a targetUrl that is present but does not parse as a URL still runs the
\* chain, every strategy fails, the outcome is the placeholder, the status 200.
C2_MalformedUrlGetsPlaceholder ==
    (pc = "done" /\ targetUrl \in MalformedUrls)
        => (attempted = StrategyOrder /\ ~success /\ fetchMethod = "fallback"
            /\ res.status = 200)

\* C3: once strategy i is classified successful, no outbound call of a later
\* strategy is issued for the request.
C3_ShortCircuit ==
    /\ (success /\ fetchMethod = "direct")
           => (CallsIssued = {"direct"} /\ attempted = <<"direct">>)
    /\ (success /\ fetchMethod = "mobile")
           => (CallsIssued \subseteq {"direct", "mobile"} /\ attempted = <<"direct", "mobile">>)

\* the mobile strategy won after the desktop one failed, and the response is out
C3_Witness ==
    /\ pc = "done"
    /\ success
    /\ fetchMethod = "mobile"
    /\ got["direct"].kind = "timeout"
    /\ res.status = 200

\* C4: the strategies are attempted in the order desktop, mobile, archival,
\* each after the one before it has settled; a failed strategy is followed by
\* the next one; the attempted strategies are a prefix of the order and at
\* most one outbound call is in flight.
C4_OrderedChain ==
    /\ Len(attempted) <= 3
    /\ \A i \in 1..Len(attempted) : attempted[i] = StrategyOrder[i]
    /\ \A i, j \in 1..Len(calls) : i < j => RankOf(calls[i].kind) < RankOf(calls[j].kind)
    /\ Cardinality(inflight) <= 1
    /\ inflight = (IF pc \in CallKinds THEN {pc} ELSE {})
    /\ \A k \in CallsIssued \ inflight : got[k] # NoOutcome
    /\ (pc \in CallKinds /\ Len(attempted) > 0) => TagOf(pc) = attempted[Len(attempted)]
    /\ Answered =>
           \/ success /\ fetchMethod = "direct" /\ attempted = <<"direct">>
           \/ success /\ fetchMethod = "mobile" /\ attempted = <<"direct", "mobile">>
           \/ success /\ fetchMethod = "wayback" /\ attempted = StrategyOrder
           \/ ~success /\ attempted = StrategyOrder

\* the two identity fetches and the lookup have failed or not sufficed and
\* the snapshot fetch, the fourth call, is the one in flight
C4_Witness ==
    /\ pc = "archived"
    /\ Len(calls) = 4
    /\ got["direct"].kind = "response"
    /\ got["mobile"].kind = "neterr"

\* C5: when every strategy is classified failed, the outcome is tagged as the
\* fallback placeholder and the delivered HTML says the content could not be
\* loaded and holds the targetUrl text, a link to it and a retry control.
C5_AllFailedGivesPlaceholder ==
    (Answered /\ ~success)
        => /\ fetchMethod = "fallback"
           /\ res.status = 200
           /\ Includes(res.body, "We're having trouble loading the educational content")
           /\ Includes(res.body, "<div class=\"url\">" \o targetUrl \o "</div>")
           /\ Includes(res.body, "<a href=\"" \o targetUrl \o "\" target=\"_blank\"")
           /\ Includes(res.body, "<button onclick=\"window.parent.location.reload()\"")

\* C6: when the strategies before k fail and k succeeds, the source tag is
\* k's, the first successful strategy, and the delivered document has gone
\* through the rewrite step.
C6_RecoveryTaggedAndRewritten ==
    (Answered /\ success)
        => /\ fetchMethod = attempted[Len(attempted)]
           /\ \A i \in 1..(Len(attempted) - 1) : fetchMethod # attempted[i]
           /\ res.status = 200
           /\ rewritten

\* C7: a response with a success status and a trimmed body shorter than the
\* minimum is classified failed, for each of the three strategies; the chain
\* goes on to the next strategy, or to the placeholder after the last, and
\* the short body is not the outcome.
C7_ShortBodyRejected ==
    Answered =>
        \A k \in {"direct", "mobile", "archived"} :
            (SuccessStatus(got[k]) /\ ShortBody(got[k]))
                => /\ ~(success /\ fetchMethod = TagOf(k))
                   /\ k = "direct" => Len(attempted) >= 2
                   /\ k = "mobile" => Len(attempted) = 3
                   /\ k = "archived" => (fetchMethod = "fallback" /\ res.status = 200)
                   /\ got[k].body # "" => res.body # got[k].body

\* C8: the snapshot fetch is issued only after the lookup has returned a
\* success status and reported an available closest snapshot; when the
\* lookup fails, times out or reports none, the strategy has failed and the
\* second call is never issued.
C8_ArchivalTwoStepGuard ==
    LET l == got["lookup"]
        reported == /\ SuccessStatus(l)
                    /\ l.data.parses /\ ~l.data.isNull
                    /\ l.data.hasSnapshots /\ l.data.hasClosest /\ l.data.available
    IN  /\ "archived" \in CallsIssued => ("lookup" \in CallsIssued \ inflight /\ reported)
        /\ (pc = "done" /\ "lookup" \in CallsIssued /\ ~reported)
               => ("archived" \notin CallsIssued /\ ~success /\ fetchMethod # "wayback")

\* the lookup answered 200 with a closest snapshot that is not available,
\* and the request ended without a snapshot fetch
C8_Witness ==
    /\ pc = "done"
    /\ got["lookup"].status = 200
    /\ got["lookup"].data.hasClosest
    /\ ~got["lookup"].data.available
    /\ CallsIssued = {"direct", "mobile", "lookup"}

\* C9: for every strategy, the snapshot fetch included, a response without a
\* success status or without an accepted (text/html) content type is
\* classified failed: no strategy wins with a response that is not HTML.
C9_ContentTypeGate ==
    \A k \in {"direct", "mobile", "archived"} :
        (got[k].kind = "response" /\ (~SuccessStatus(got[k]) \/ ~IsHtmlType(got[k].contentType)))
            => ~(success /\ fetchMethod = TagOf(k))

\* C10: without a targetUrl (absent or empty) the endpoint answers a 4xx with
\* a message and issues no outbound call, and no other input gets a status
\* other than 200.
C10_OnlyMissingFieldIsRefused ==
    pc = "done" =>
        /\ targetUrl = "" => (res.status \in 400..499 /\ res.body # "" /\ calls = <<>>)
        /\ res.status # 200 => targetUrl = ""

\* C11: the rewrite transforms are applied only to an outcome of a real
\* strategy: a placeholder outcome goes through none of them and is delivered
\* exactly as it was synthesised.
C11_PlaceholderUntouched ==
    (pc = "done" /\ fetchMethod = "fallback")
        => (~rewritten /\ res.status = 200 /\ res.body = Placeholder(targetUrl))

\* every strategy failed for a URL that parses and the fallback page went out
C11_Witness ==
    /\ pc = "done"
    /\ fetchMethod = "fallback"
    /\ attempted = StrategyOrder
    /\ targetUrl \in WellFormedUrls
    /\ Includes(res.body, "Educational Content Access")

\* the value of a header of the response, "" when it is not set
HeaderOf(name) ==
    IF \E h \in res.headers : h[1] = name
    THEN (CHOOSE h \in res.headers : h[1] = name)[2]
    ELSE ""

\* C15: whenever the endpoint delivers a document, real content or the
\* placeholder, the status is 200, the Content-Type is text/html with charset
\* utf-8, framing is allowed from any origin (frame-ancestors *) and caching is
\* off (no-cache, no-store); the endpoint answers no other success status.
C15_DeliveryHeaders ==
    /\ res.status \in 200..299 => res.status = 200
    /\ (pc = "done" /\ (~res.json \/ res.status = 200 \/ fetchMethod = "fallback"))
           => /\ res.status = 200
              /\ ~res.json
              /\ HeaderOf("Content-Type") = "text/html; charset=utf-8"
              /\ Includes(HeaderOf("Content-Security-Policy"), "frame-ancestors *")
              /\ Includes(HeaderOf("Cache-Control"), "no-cache")
              /\ Includes(HeaderOf("Cache-Control"), "no-store")

\* a snapshot from the archive was delivered
C15_Witness ==
    /\ pc = "done"
    /\ success
    /\ fetchMethod = "wayback"
    /\ res.status = 200
    /\ res.body # ""

\* C17: when the post-processing of a fetched document throws (its source URL
\* does not parse), the steps after the throw are skipped, the document as
\* transformed up to the throw is sent with status 200, and the exception does
\* not reach the handler that answers 500.
C17_TransformFailureAbsorbed ==
    (pc = "done" /\ success /\ ~UrlParses(targetUrl))
        => /\ res.status = 200
           /\ ~res.json
           /\ ~rewritten
           /\ res.body = got["archived"].body

\* a snapshot was fetched for a targetUrl that does not parse, and sent
C17_Witness ==
    /\ pc = "done"
    /\ success
    /\ targetUrl \in MalformedUrls
    /\ fetchMethod = "wayback"
    /\ res.status = 200

\* C18: an acquisition issues at most four outbound calls, the desktop fetch,
\* the mobile fetch, the lookup and the snapshot fetch, bounded by timeouts of
\* 20, 15, 10 and 15 seconds, none of them twice; it ends in one of the two
\* terminal states, Succeeded or Placeholder, with one response sent.
C18_ChainTerminates ==
    /\ Len(calls) <= 4
    /\ \A i, j \in 1..Len(calls) : calls[i].kind = calls[j].kind => i = j
    /\ \A i \in 1..Len(calls) :
           /\ calls[i].kind \in CallKinds
           /\ TimeoutMs(calls[i].kind) = <<20000, 15000, 10000, 15000>>[RankOf(calls[i].kind)]
    /\ pc # "done" => res.status = 0
    /\ Answered =>
           /\ res.status = 200
           /\ \/ success /\ fetchMethod \in {"direct", "mobile", "wayback"}
              \/ ~success /\ fetchMethod = "fallback"

\* C12: applying the rewrite transforms to their own output changes nothing:
\* rewrite(rewrite(h, u), u) = rewrite(h, u) for every document h and source
\* URL u.
C12_RewriteIdempotent == [][passes >= 1 => out' = out]_vars

\* how many base tags a document holds, in any letter case
CountBaseTags(s) ==
    Cardinality({i \in 1..Len(s) :
                     StartsAtCI(s, i, "<base") /\ At(s, i + 5) \in {" ", "\n", "\t", ">", "/"}})

\* C13: the output of the rewrite holds exactly one base tag for every input
\* document: without a base tag, with one in any letter case or spacing, or
\* without a head tag.
C13_ExactlyOneBaseTag == passes >= 1 => CountBaseTags(out) = 1

\* the attributes of s written NAME="/..." or NAME='/...' whose value starts
\* with one slash, as <<name, quote, position of the slash>>
RootRelativeAttrs(s) ==
    {a \in {"href", "src", "action"} \X {"\"", "'"} \X (1..Len(s)) :
         /\ StartsAt(s, a[3] - Len(a[1]) - 2, a[1] \o "=" \o a[2] \o "/")
         /\ At(s, a[3] + 1) # "/"
         /\ FindChar(s, a[3], {a[2]}) > 0}

\* the value of such an attribute, from its slash to its closing quote
AttrValue(s, a) == Slice(s, a[3], FindChar(s, a[3], {a[2]}) - 1)

C16_OverlayAlwaysRemovable ==
    /\ [](now >= Ceiling + TickMs => overlay # "shown")
    /\ [](readyChecks <= MaxChecks)
    /\ []((readyChecks >= MaxChecks \/ (readyChecks > 0 /\ now > PollCeiling + PollInterval))
              => overlay # "shown")
    /\ [][overlay # "shown" => overlay' # "shown"]_vars
    /\ <>(overlay # "shown")

\* no signal, no load, no error, not even DOMContentLoaded: the overlay was
\* up until the unconditional timer ran
C16_Witness ==
    /\ fired = {}
    /\ readyState = "loading"
    /\ now = Ceiling
    /\ overlay = "hidden"
    /\ readyChecks = 0

\* the request of slot p got past the schema check
Validated(p) == prox[p].body.hasTargetUrl /\ prox[p].body.targetUrl \in WellFormedUrls

C20_RequestIsolation ==
    /\ [][reqs' # reqs => UNCHANGED <<activeConnections, proxyRequests, proxyStats>>]_vars
    /\ [](\A r1, r2 \in ContentSlots :
              (reqs[r1].pc = "done" /\ reqs[r2].pc = "done"
                 /\ reqs[r1].targetUrl = reqs[r2].targetUrl /\ reqs[r1].got = reqs[r2].got)
                  => (reqs[r1].res = reqs[r2].res /\ reqs[r1].fetchMethod = reqs[r2].fetchMethod))
    /\ [](\A r \in ContentSlots :
              reqs[r].pc = "done" => reqs[r].res.status \in {200, 500})

\* two content requests answered differently while a plain-proxy request was
\* logged in between
C20_Witness ==
    /\ reqs[1].pc = "done"
    /\ reqs[2].pc = "done"
    /\ reqs[1].targetUrl = reqs[2].targetUrl
    /\ reqs[1].res.body # reqs[2].res.body
    /\ proxyStats.totalRequests = 1
    /\ activeConnections = 1

\* C21: the readiness block is injected into the document for every
\* outcome, the placeholder included, immediately before the closing body
\* tag: every delivered document carries the overlay-hiding script.
C21_InjectionCoversEveryOutcome ==
    (pc = "done" /\ res.status = 200)
        => \E i \in 1..Len(res.body) :
               /\ StartsAt(res.body, i, FallbackScript)
               /\ StartsAtCI(res.body, i + Len(FallbackScript) + 1, "</body>")

\* the quoted href, src and action attributes of s whose value is not
\* root-relative (it does not start with a slash, or it starts with two), as
\* <<name, quote, position of the value>>
OtherAttrs(s) ==
    {a \in {"href", "src", "action"} \X {"\"", "'"} \X (1..Len(s)) :
         /\ StartsAt(s, a[3] - Len(a[1]) - 2, a[1] \o "=" \o a[2])
         /\ At(s, a[3]) # "/" \/ At(s, a[3] + 1) = "/"
         /\ FindChar(s, a[3], {a[2]}) > 0}

\* the text of such an attribute, from its name to its closing quote
AttrText(s, a) == Slice(s, a[3] - Len(a[1]) - 2, FindChar(s, a[3], {a[2]}))

\* the url(...) references of s that are not root-relative, by position
OtherCssUrls(s) ==
    {i \in 1..Len(s) :
         /\ StartsAt(s, i, "url(")
         /\ FindChar(s, i, {")"}) > 0
         /\ LET g == IF IsQuote(At(s, i + 4)) THEN i + 5 ELSE i + 4
            IN  At(s, g) # "/" \/ At(s, g + 1) = "/"}

\* references the transforms take out with the archive's own elements
ArchiveOwn(t) == Includes(t, "archive.org")

\* C22: only root-relative references are rewritten: href/src/action values
\* and CSS url() references that are absolute, document-relative (x, ../x)
\* or protocol-relative (//host/x) are left unchanged.
C22_OnlyRootRelativeRewritten ==
    passes >= 1 =>
        /\ \A a \in OtherAttrs(doc) :
               ArchiveOwn(AttrText(doc, a)) \/ Includes(out, AttrText(doc, a))
        /\ \A i \in OtherCssUrls(doc) :
               Includes(out, Slice(doc, i, FindChar(doc, i, {")"})))

\* a step in which the window's error listener ran: a timer was added and
\* it was neither the DOMContentLoaded nor the load listener that added it
ErrorStep ==
    /\ "error" \in fired'
    /\ timers \subseteq timers'
    /\ timers' # timers
    /\ readyState' = readyState
    /\ ("load" \in fired') = ("load" \in fired)

\* C23: after the window's load event the overlay is hidden within 1000 ms,
\* and after any window error event within 2000 ms, whatever the state of
\* the readiness poll: each listener sets a hide timer of that delay, a hide
\* timer never stays pending past its time while the overlay is shown, and
\* it leaves the timer set only by a run after which the overlay is hidden.
C23_RedundantSafetyNets ==
    /\ [][("load" \notin fired /\ "load" \in fired')
              => Timer(now + 1000, "hide") \in timers']_vars
    /\ [][ErrorStep => Timer(now + 2000, "hide") \in timers']_vars
    /\ [](overlay = "shown" => \A t \in timers : t.fn = "hide" => now < t.due + TickMs)
    /\ [][\A t \in timers : (t.fn = "hide" /\ t \notin timers') => overlay' # "shown"]_vars
    /\ [][overlay = "hidden" => overlay' # "shown"]_vars
    /\ ("load" \in fired ~> overlay # "shown")
    /\ ("error" \in fired ~> overlay # "shown")

\* the load event came at 3 s, no content is visible, the poll is still
\* going, and the overlay is hidden one second later
C23_Witness ==
    /\ "load" \in fired
    /\ "content" \notin fired
    /\ "error" \notin fired
    /\ now \in 4000..(4000 + TickMs)
    /\ readyChecks < MaxChecks
    /\ overlay = "hidden"
    /\ \E t \in timers : t.fn = "check"

\* the checks that are scheduled
PendingChecks == {t \in timers : t.fn = "check"}

\* C24: the poll runs its first check 100 ms after the DOM is ready and then
\* every 500 ms; a check hides the overlay only if (visible content is
\* detected and more than 1500 ms have elapsed) or the check count has
\* reached 30 or more than 15000 ms have elapsed; after hiding it schedules
\* no further check, so the poll performs at most 30 checks.
C24_PollingRule ==
    /\ [](now = 0 /\ readyState = "interactive" /\ readyChecks = 0
              => PendingChecks = {Timer(100, "check")})
    /\ [](readyState = "loading" => PendingChecks = {} /\ readyChecks = 0)
    /\ [][(readyState = "loading" /\ readyState' = "interactive")
              => PendingChecks' = {Timer(now + 100, "check")}]_vars
    /\ [][readyChecks' # readyChecks =>
              /\ readyChecks' = readyChecks + 1
              /\ PendingChecks # {}
              /\ IF ("content" \in fired /\ now > 1500) \/ readyChecks' >= 30 \/ now > 15000
                 THEN PendingChecks' = {} /\ overlay' # "shown"
                 ELSE /\ PendingChecks' = {Timer(now + 500, "check")}
                      /\ overlay' = overlay]_vars
    /\ [][readyChecks' = readyChecks => PendingChecks \subseteq PendingChecks']_vars
    /\ [](Cardinality(PendingChecks) <= 1)
    /\ [](readyChecks <= 30)
    /\ []((hasLoaded /\ readyChecks > 0 /\ PendingChecks = {}) => overlay # "shown")

\* no content, no load, no error: the 30th check, 14.6 s after the DOM was
\* ready at once, hides the overlay and nothing more is scheduled
C24_Witness ==
    /\ readyChecks = 30
    /\ fired \subseteq {"dcl"}
    /\ now < 15000
    /\ overlay = "hidden"
    /\ PendingChecks = {}

\* the body of slot p's request fails the schema: no targetUrl, or one that
\* is not a URL
Rejected(p) == prox[p].pc # "idle" /\ ~Validated(p)

\* C25: when the body of a plain-proxy request fails schema validation, the
\* handler answers 400, issues no outbound call, creates no log record,
\* leaves totalRequests unchanged, and still decrements the
\* active-connection counter it incremented on entry.
C25_ValidationFailure ==
    /\ [](\A p \in ProxySlots :
              Rejected(p) =>
                  /\ prox[p].pc \in {"parse", "closing", "done"}
                  /\ prox[p].response = NoOutcome
                  /\ prox[p].logged = <<>>
                  /\ \A i \in 1..Len(proxyRequests) : proxyRequests[i].id # p
                  /\ prox[p].pc \in {"closing", "done"}
                         => prox[p].res.status = 400 /\ prox[p].res.json)
    /\ [][\A p \in ProxySlots :
              (Rejected(p) /\ prox[p].pc = "parse" /\ prox'[p].pc # "parse") =>
                  /\ proxyRequests' = proxyRequests
                  /\ proxyStats'.totalRequests = proxyStats.totalRequests
                  /\ activeConnections' = activeConnections - 1
                  /\ proxyStats'.activeConnections = activeConnections - 1]_vars
    /\ [](\A p \in ProxySlots : Rejected(p) /\ prox[p].pc = "parse" => activeConnections >= 1)

\* a request without a usable targetUrl was refused while another was
\* proxied and logged: one record, and the counter is back at 0
C25_Witness ==
    /\ prox[1].pc = "done"
    /\ prox[1].body.targetUrl = "not a url"
    /\ prox[1].res.status = 400
    /\ prox[2].pc = "done"
    /\ prox[2].res.status = 200
    /\ proxyStats.totalRequests = 1
    /\ Len(proxyRequests) = 1
    /\ activeConnections = 0

\* the requests that have entered the handler and not yet run its finally
InHandler == {p \in ProxySlots : prox[p].pc \in {"parse", "fetch", "text", "respond", "fail"}}

\* C27: under any interleaving of concurrent plain-proxy requests the
\* activeConnections counter equals the number of requests that have entered
\* the handler and not yet run their finally block, it is never negative,
\* the value stored in stats.activeConnections after each update equals the
\* counter at that moment, and when all requests have finished it is 0.
C27_ActiveConnectionCounter ==
    /\ activeConnections = Cardinality(InHandler)
    /\ activeConnections >= 0
    /\ proxyStats.activeConnections = activeConnections
    /\ (\A p \in ProxySlots : prox[p].pc \in {"idle", "closing", "done"}) => activeConnections = 0

\* one request has finished while another, which entered before that, still
\* waits for its upstream: the counter reads 1
C27_Witness ==
    /\ prox[1].pc = "done"
    /\ prox[1].logged # <<>>
    /\ prox[2].pc = "fetch"
    /\ activeConnections = 1
    /\ proxyStats.activeConnections = 1
    /\ proxyStats.totalRequests = 1

\* the call whose body the source tag names
NamedCall == IF fetchMethod = "wayback" THEN "archived" ELSE fetchMethod

\* C26: the document sent by the content endpoint is either the body
\* returned by the strategy named in the source tag (after post-processing)
\* or the placeholder; a body read during a strategy that was then
\* classified failed is never delivered, and the source tag is never 'none'
\* when a document is sent.
C26_BodyProvenance ==
    (pc = "done" /\ res.status = 200) =>
        /\ fetchMethod \in {"direct", "mobile", "wayback", "fallback"}
        /\ fetchMethod = "fallback" => res.body = Placeholder(targetUrl)
        /\ fetchMethod # "fallback" =>
               /\ got[NamedCall].kind = "response"
               /\ got[NamedCall].status \in 200..299
               /\ TrimmedLength(got[NamedCall].body) > 100
               /\ res.body = IF rewritten
                             THEN Enhanced(got[NamedCall].body, targetUrl)
                             ELSE got[NamedCall].body
        /\ \A k \in {"direct", "mobile", "archived"} :
               (got[k].kind = "response" /\ got[k].body # ""
                  /\ TrimmedLength(got[k].body) <= 100)
                   => res.body # got[k].body

\* the desktop call returned an undersized page, which stays in html; the
\* mobile call then returned a full one, and that one is delivered
C26_Witness ==
    /\ pc = "done"
    /\ fetchMethod = "mobile"
    /\ got["direct"].kind = "response"
    /\ got["direct"].status = 200
    /\ IsHtmlType(got["direct"].contentType)
    /\ got["direct"].body = ShortDoc
    /\ rewritten
    /\ res.status = 200
    /\ ~Includes(res.body, "blocked")

\* C28: under any sequence of the operations the routes invoke,
\* getProxyRequestCount equals the number of creates since the last clear,
\* stats.totalRequests equals the number of creates since process start and
\* never decreases (clear does not reset it), hence
\* totalRequests >= getProxyRequestCount in every reachable state.
C28_LogStoreCounters ==
    /\ [](Len(proxyRequests) = sinceClear)
    /\ [][(returned' # returned /\ returned'.op = "count")
              => returned'.value = <<sinceClear>>]_vars
    /\ [](proxyStats.totalRequests = created)
    /\ [][proxyStats'.totalRequests >= proxyStats.totalRequests]_vars
    /\ [](proxyStats.totalRequests >= Len(proxyRequests))
    /\ [](returned.op = "stats" => returned.value[1].totalRequests <= created)

\* three creates, a clear, one more create: the count reads 1, the total 4
C28_Witness ==
    /\ created = 4
    /\ sinceClear = 1
    /\ returned = [op |-> "count", value |-> <<1>>]
    /\ proxyStats.totalRequests = 4
    /\ Len(proxyRequests) = 1

\* C29: in the RequestLogs view, after any sequence of Next/Previous clicks,
\* log creations and log clears (from either button), the page index
\* satisfies 0 <= page and, whenever the server holds at least one log
\* record, page * 10 < total: the view never sits on a page that does not
\* exist.
C29_PageIndexInRange ==
    /\ page >= 0
    /\ Len(proxyRequests) >= 1 => page * 10 < Len(proxyRequests)

\* how often the presentation p has happened
Times(p) == Cardinality({i \in 1..Len(presented) : presented[i] = p})

\* C30: in the masked page, for every interleaving of the content fetch
\* completing, the iframe load/error events, the 5 s iframe timeout and the
\* 8 s ultimate-fallback timer, the terminal presentation is exclusive:
\* either the iframe is revealed (hideLoader) or a direct redirect is started
\* (directRedirect), never both; directRedirect is started at most once.
C30_ExclusiveOutcome ==
    /\ Times("redirect") <= 1
    /\ Times("iframe") <= 1
    /\ ~(Times("iframe") >= 1 /\ Times("redirect") >= 1)

=============================================================================
